---- MODULE Spec2Model ----
(***************************************************************************)
(* Botcrew orchestrator control plane.                                     *)
(*                                                                         *)
(* Part 1: agent lifecycle -- the agents table, the worker runtime (pods), *)
(*         AgentService.create_agent / delete_agent, the worker status     *)
(*         report and the ReconciliationLoop.                              *)
(* Part 2: channels, membership and the DM channel lookup-or-create.       *)
(* Part 3: messages, read cursors and the CommunicationService routing.    *)
(*                                                                         *)
(* Every coroutine is cut at its awaits that matter for interleaving: one  *)
(* action is the code between two such awaits.                             *)
(***************************************************************************)
EXTENDS Integers, Sequences, FiniteSets, TLC

VARIABLES
    \* ---- durable store: agents table (id -> row), absent id = no row
    agents,
    \* ---- worker runtime: agent id -> phase of the pod named agent-<id>
    pods,
    \* ---- AgentService.delete_agent calls in flight
    del_pc, del_pod,
    \* ---- ReconciliationLoop
    rec_pc, rec_agents, rec_idx, rec_pods, rec_fresh,
    failure_counts, last_attempt, pending_seen,
    \* ---- bookkeeping of the environment and of finished calls
    limits, deleted, faults, pod_faults, tick_missing, tick_db_failed,
    \* ---- durable store: channels table (in insertion order) and the
    \*      channel_members table (set of rows)
    channels, channel_members,
    \* ---- ChannelService.get_or_create_dm_channel calls in flight, the
    \*      channel each finished call returned, and the room for new channels
    dm_calls, dm_returned, channel_limit,
    \* ---- the instant now() returns, in the database and in the process
    clock,
    \* ---- durable store: messages table (in insertion order) and the
    \*      read_cursors table (set of rows)
    messages, read_cursors,
    \* ---- the last response of GET /channels/{id}/messages/unread
    unread,
    \* ---- CommunicationService.send_channel_message call in flight and the
    \*      ids of the messages whose call returned
    send, returned,
    \* ---- transport: frames published on ws:channel:<id>, DM jobs and
    \*      evaluation jobs handed to the task queue (job -> how many)
    frames, dm_jobs, eval_jobs,
    \* ---- room for messages and for the clock
    msg_limits,
    \* ---- a client reading a channel's history page by page
    walk,
    \* ---- durable store: the id and created_at columns of the agents
    \*      table, and a client reading GET /agents page by page
    agent_rows, listing,
    \* ---- per replica: ConnectionManager.channels (channel id -> the
    \*      dict's entries in insertion order, NULL where one was deleted),
    \*      the pmessages its subscription holds unread, and its listener
    cm_channels, inbox, listener,
    \* ---- the frames each session's socket has sent to its client, and
    \*      the sessions whose send never completes
    sockets, stuck,
    \* ---- the channel of every frame published on the bus, and for each
    \*      the sessions attached ever since it was published
    published, attached_since,
    \* ---- connects and failures so far, and the room for them
    ws_used, ws_limits,
    \* ---- the task queue: every job handed to it, with its retries so
    \*      far, and the room for jobs
    queue_jobs, job_limit,
    \* ---- CommunicationService.send_direct_message call in flight, the
    \*      messages such calls persisted and those whose call returned
    dsend, dm_persisted, dm_sent,
    \* ---- durable store: the heartbeat_interval_seconds column of the
    \*      agents table, and the status of the last response
    heartbeat_interval_seconds, config_status,
    \* ---- one replica's channel_websocket connections: where each
    \*      coroutine is, the ConnectionManager's dict with its handles,
    \*      error frames sent per connection, connections a broadcast evicted
    ep, registry, ep_errors, ep_evicted, ep_limits,
    \* ---- the response of a GET /agents or GET /agents/{id} being sent
    live,
    \* ---- a second orchestrator replica: the state of its reconciler
    \*      (None when there is one replica)
    standby,
    \* ---- durable store: the memory column of one agent, and the PATCH
    \*      /agents/{id}/memory requests in flight
    memory, patch,
    \* ---- one worker process: its HeartbeatTimer, the asyncio tasks running
    \*      HeartbeatTimer._loop, its config dict, and the config_update
    \*      requests and restart tasks of its event loop
    heartbeat, loop_tasks, worker_config, calls

lifecycle_vars == <<agents, pods, del_pc, del_pod, rec_pc, rec_agents, rec_idx,
                    rec_pods, rec_fresh, failure_counts, last_attempt,
                    pending_seen, limits, deleted, faults, pod_faults,
                    tick_missing, tick_db_failed>>

dm_vars == <<channels, channel_members, dm_calls, dm_returned, channel_limit>>
msg_vars == <<clock, messages, read_cursors, unread, send, returned, frames,
              dm_jobs, eval_jobs, msg_limits>>

page_vars == <<walk, agent_rows, listing>>
\* the variables of the parts after the first three
ws_vars == <<cm_channels, inbox, listener, sockets, stuck, published,
             attached_since, ws_used, ws_limits>>
job_vars == <<queue_jobs, job_limit, dsend, dm_persisted, dm_sent>>
config_vars == <<heartbeat_interval_seconds, config_status>>
ep_vars == <<ep, registry, ep_errors, ep_evicted, ep_limits>>
live_vars == <<live>>
replica_vars == <<standby>>
memory_vars == <<memory, patch>>
worker_vars == <<heartbeat, loop_tasks, worker_config, calls>>
aux_vars == <<replica_vars, memory_vars, worker_vars>>
not_memory_vars == <<lifecycle_vars, dm_vars, msg_vars, page_vars, ws_vars, job_vars, config_vars, ep_vars, live_vars, replica_vars, worker_vars>>
not_worker_vars == <<lifecycle_vars, dm_vars, msg_vars, page_vars, ws_vars, job_vars, config_vars, ep_vars, live_vars, replica_vars, memory_vars>>
ext_vars == <<page_vars, ws_vars, job_vars, config_vars, ep_vars, live_vars, aux_vars>>
not_page_vars == <<lifecycle_vars, dm_vars, msg_vars, ws_vars, job_vars, config_vars, ep_vars, live_vars, aux_vars>>
not_ws_vars == <<lifecycle_vars, dm_vars, msg_vars, page_vars, job_vars, config_vars, ep_vars, live_vars, aux_vars>>
not_job_vars == <<lifecycle_vars, dm_vars, msg_vars, page_vars, ws_vars, config_vars, ep_vars, live_vars, aux_vars>>
not_config_vars == <<lifecycle_vars, dm_vars, msg_vars, page_vars, ws_vars, job_vars, ep_vars, live_vars, aux_vars>>
not_live_vars == <<lifecycle_vars, dm_vars, msg_vars, page_vars, ws_vars, job_vars, config_vars, ep_vars, aux_vars>>
not_ep_msg_vars == <<lifecycle_vars, dm_vars, page_vars, ws_vars, job_vars, config_vars, live_vars, aux_vars>>

vars == <<lifecycle_vars, msg_vars, dm_vars, ext_vars>>

----------------------------------------------------------------------------
(* Bounds of the model *)

\* injected failures of runtime / database calls per behaviour
MaxFaults == 2
\* pods the environment lets fail or vanish per behaviour
MaxPodFaults == 2

AgentIds == {"a1", "a2"}
UserIds == {"h1", "h2"}
\* concurrent get_or_create_dm_channel requests
DmCallIds == {"k1", "k2"}
\* channels the DM model creates at most
MaxChannels == 2

----------------------------------------------------------------------------
(* Program constants *)

_MAX_IMMEDIATE_RETRIES == 5
_BACKOFF_BASE_SECONDS == 10
_BACKOFF_MAX_SECONDS == 600
_PENDING_TIMEOUT_SECONDS == 180
\* ReconciliationLoop(interval=60)
interval == 60

None == <<>>
\* an id column that is NULL, an id argument that is not given
NULL == "NULL"

\* PodManager.create_agent_pod: pod_name = f"agent-{agent.id}"
PodName(a) == <<"agent", a>>

Statuses == {"creating", "running", "error", "recovering", "terminating"}
Phases == {"Pending", "Running", "Failed"}

----------------------------------------------------------------------------
(* Helpers *)

Min(x, y) == IF x < y THEN x ELSE y

RECURSIVE Pow2(_)
Pow2(n) == IF n <= 0 THEN 1 ELSE 2 * Pow2(n - 1)

\* dict.pop(key, None)
Pop(f, k) == [x \in (DOMAIN f) \ {k} |-> f[x]]
\* dict[key] = value
Put(f, k, v) == [x \in (DOMAIN f) \cup {k} |-> IF x = k THEN v ELSE f[x]]

\* every ordering of a finite set, as sequences (an SQL SELECT without ORDER BY)
Orderings(S) ==
    {s \in [1..Cardinality(S) -> S] : \A i, j \in 1..Cardinality(S) : i # j => s[i] # s[j]}

----------------------------------------------------------------------------
(* Part 1: agent lifecycle *)

Row(st, pn) == [status |-> st, pod_name |-> pn]

LifecycleInit(fleet, max_faults, max_pod_faults) ==
    /\ limits = [fleet |-> fleet, faults |-> max_faults, pod_faults |-> max_pod_faults]
    /\ agents = <<>>
    /\ pods = [a \in AgentIds |-> "Absent"]
    /\ del_pc = [a \in AgentIds |-> "idle"]
    /\ del_pod = [a \in AgentIds |-> None]
    /\ rec_pc = "sleep"
    /\ rec_agents = <<>>
    /\ rec_idx = 1
    /\ rec_pods = [a \in AgentIds |-> "Absent"]
    /\ rec_fresh = None
    /\ failure_counts = <<>>
    /\ last_attempt = <<>>
    /\ pending_seen = <<>>
    /\ deleted = {}
    /\ faults = 0
    /\ pod_faults = <<>>
    /\ tick_missing = {}
    /\ tick_db_failed = FALSE

\* a call the environment makes fail: allowed while the fault budget lasts
FaultAllowed(ok) == ok \/ faults < limits.faults
CountFault(ok) == IF ok THEN faults ELSE faults + 1

\* PodManager.create_agent_pod: the runtime creates the pod, or raises
\* (unavailable, or 409 Conflict when a pod of that name exists)
LaunchSucceeds(a, ok) == ok /\ pods[a] = "Absent"
create_agent_pod(p, a) == [p EXCEPT ![a] = "Pending"]

\* PodManager.delete_agent_pod: the pod is gone afterwards (a 404 is a
\* success); any other ApiException is raised and the pod stays
delete_agent_pod(p, a, ok) == IF ok THEN [p EXCEPT ![a] = "Absent"] ELSE p

\* ReconciliationLoop._set_agent_status: session.get, then write and commit
\* when the row exists, whatever its current status is
_set_agent_status(tbl, a, st) ==
    IF a \in DOMAIN tbl THEN [tbl EXCEPT ![a].status = st] ELSE tbl

\* AgentService.create_agent: ValueError before any write when the provider
\* has no credentials; else insert with status creating, flush, launch, stamp
\* handle + running or set error, commit.  The row is visible to other
\* transactions only from the commit on; when the commit raises, the session
\* rolls the insert back and nothing undoes the launch.  A new agent's id is
\* fresh: no row, no earlier row and no pod carry it.
CreatedRow(a, launched) ==
    IF launched THEN Row("running", PodName(a)) ELSE Row("error", None)

Failures(ok, committed) == (IF ok THEN 0 ELSE 1) + (IF committed THEN 0 ELSE 1)

CreateAgent(a, configured, ok, committed) ==
    /\ a \in limits.fleet
    /\ a \notin DOMAIN agents \cup deleted
    /\ pods[a] = "Absent"
    /\ faults + Failures(ok, committed) <= limits.faults
    /\ configured \/ (ok /\ committed)
    /\ LET launched == configured /\ LaunchSucceeds(a, ok) IN
        /\ pods' = IF launched THEN create_agent_pod(pods, a) ELSE pods
        /\ agents' = IF configured /\ committed
                      THEN Put(agents, a, CreatedRow(a, launched)) ELSE agents
    /\ faults' = faults + Failures(ok, committed)
    /\ UNCHANGED <<del_pc, del_pod, rec_pc, rec_agents, rec_idx, rec_pods,
                   rec_fresh, failure_counts, last_attempt, pending_seen,
                   limits, deleted, pod_faults, tick_missing, tick_db_failed>>
    /\ UNCHANGED <<msg_vars, dm_vars, ext_vars>>

\* AgentService.delete_agent, first part: load the row, set terminating, commit
DeleteBegin(a) ==
    /\ a \in DOMAIN agents
    /\ del_pc[a] = "idle"
    /\ agents' = [agents EXCEPT ![a].status = "terminating"]
    /\ del_pod' = [del_pod EXCEPT ![a] = agents[a].pod_name]
    /\ del_pc' = [del_pc EXCEPT ![a] = "terminate"]
    /\ UNCHANGED <<pods, rec_pc, rec_agents, rec_idx, rec_pods, rec_fresh,
                   failure_counts, last_attempt, pending_seen, limits, deleted,
                   faults, pod_faults, tick_missing, tick_db_failed>>
    /\ UNCHANGED <<msg_vars, dm_vars, ext_vars>>

\* second part: if agent.pod_name: delete the pod, swallowing any exception
DeleteTerminate(a, ok) ==
    /\ del_pc[a] = "terminate"
    /\ FaultAllowed(ok)
    /\ ok \/ del_pod[a] # None
    /\ pods' = IF del_pod[a] # None THEN delete_agent_pod(pods, a, ok) ELSE pods
    /\ del_pc' = [del_pc EXCEPT ![a] = "row"]
    /\ faults' = CountFault(ok)
    /\ UNCHANGED <<agents, del_pod, rec_pc, rec_agents, rec_idx, rec_pods,
                   rec_fresh, failure_counts, last_attempt, pending_seen, limits,
                   deleted, pod_faults, tick_missing, tick_db_failed>>
    /\ UNCHANGED <<msg_vars, dm_vars, ext_vars>>

\* third part: delete the row, commit, return
DeleteRow(a) ==
    /\ del_pc[a] = "row"
    /\ agents' = Pop(agents, a)
    /\ del_pc' = [del_pc EXCEPT ![a] = "idle"]
    /\ deleted' = deleted \cup {a}
    /\ UNCHANGED <<pods, del_pod, rec_pc, rec_agents, rec_idx, rec_pods,
                   rec_fresh, failure_counts, last_attempt, pending_seen, limits,
                   faults, pod_faults, tick_missing, tick_db_failed>>
    /\ UNCHANGED <<msg_vars, dm_vars, ext_vars>>

\* POST /internal/agents/{id}/status, sent by the worker of a started pod
status_map(reported) == IF reported = "ready" THEN "running" ELSE "error"

report_status(a, reported) ==
    /\ a \in DOMAIN agents
    /\ pods[a] = "Running"
    /\ agents' = [agents EXCEPT ![a].status = status_map(reported)]
    /\ UNCHANGED <<pods, del_pc, del_pod, rec_pc, rec_agents, rec_idx, rec_pods,
                   rec_fresh, failure_counts, last_attempt, pending_seen, limits,
                   deleted, faults, pod_faults, tick_missing, tick_db_failed>>
    /\ UNCHANGED <<msg_vars, dm_vars, ext_vars>>

\* the runtime starts a pending pod
PodStarts(a) ==
    /\ pods[a] = "Pending"
    /\ pods' = [pods EXCEPT ![a] = "Running"]
    /\ UNCHANGED <<agents, del_pc, del_pod, rec_pc, rec_agents, rec_idx, rec_pods,
                   rec_fresh, failure_counts, last_attempt, pending_seen, limits,
                   deleted, faults, pod_faults, tick_missing, tick_db_failed>>
    /\ UNCHANGED <<msg_vars, dm_vars, ext_vars>>

\* a pod fails, or vanishes from the runtime (eviction, node loss)
PodBreaks(a, phase) ==
    /\ pods[a] \in {"Pending", "Running"}
    /\ Len(pod_faults) < limits.pod_faults
    /\ pods' = [pods EXCEPT ![a] = phase]
    /\ pod_faults' = Append(pod_faults, phase)
    /\ UNCHANGED <<agents, del_pc, del_pod, rec_pc, rec_agents, rec_idx, rec_pods,
                   rec_fresh, failure_counts, last_attempt, pending_seen, limits,
                   deleted, faults, tick_missing, tick_db_failed>>
    /\ UNCHANGED <<msg_vars, dm_vars, ext_vars>>

----------------------------------------------------------------------------
(* ReconciliationLoop *)

\* Timers.  The code stores time.monotonic() readings and only ever compares
\* "now - reading" with a threshold, so the model stores the elapsed time
\* since the reading.  Time advances in steps of `interval`; an elapsed time
\* stops growing once it is past every threshold it can be compared with.
\* a backoff that keeps doubling past _BACKOFF_MAX_SECONDS
Backoff_uncapped(failure_count) ==
    _BACKOFF_BASE_SECONDS * Pow2(failure_count - _MAX_IMMEDIATE_RETRIES)

Backoff(failure_count) ==
    Min(_BACKOFF_BASE_SECONDS * Pow2(failure_count - _MAX_IMMEDIATE_RETRIES),
        _BACKOFF_MAX_SECONDS)

AgePending(t) == IF t > _PENDING_TIMEOUT_SECONDS THEN t ELSE t + interval

\* last_attempt[a] is read only while failure_counts[a] >= 5, and is rewritten
\* whenever failure_counts[a] changes
AgeAttempt(a, t) ==
    IF a \in DOMAIN failure_counts
       /\ failure_counts[a] >= _MAX_IMMEDIATE_RETRIES
       /\ t < Backoff(failure_counts[a])
    THEN t + interval ELSE t

Elapse ==
    /\ pending_seen' = [a \in DOMAIN pending_seen |-> AgePending(pending_seen[a])]
    /\ last_attempt' = [a \in DOMAIN last_attempt |-> AgeAttempt(a, last_attempt[a])]

\* time passes while the loop is not sleeping (slow calls, scheduling delay)
TimePasses ==
    /\ Elapse
    /\ <<pending_seen, last_attempt>>' # <<pending_seen, last_attempt>>
    /\ UNCHANGED <<agents, pods, del_pc, del_pod, rec_pc, rec_agents, rec_idx,
                   rec_pods, rec_fresh, failure_counts, limits, deleted, faults,
                   pod_faults, tick_missing, tick_db_failed>>
    /\ UNCHANGED <<msg_vars, dm_vars, ext_vars>>

Snapshot(a) == [id |-> a, status |-> agents[a].status, pod_name |-> agents[a].pod_name]

\* asyncio.sleep(interval) ends; _reconcile reads the agents whose status is
\* running, error or recovering (in an order the database chooses) and
\* returns at once when there are none
Reconcilable == {a \in DOMAIN agents : agents[a].status \in {"running", "error", "recovering"}}

TickRead(order) ==
    /\ rec_pc = "sleep"
    /\ order \in Orderings(Reconcilable)
    /\ Elapse
    /\ rec_agents' = [i \in 1..Len(order) |-> Snapshot(order[i])]
    /\ rec_idx' = 1
    /\ rec_pc' = IF Reconcilable = {} THEN "sleep" ELSE "list"
    /\ tick_missing' = {a \in Reconcilable : agents[a].status = "running" /\ pods[a] = "Absent"}
    /\ tick_db_failed' = FALSE
    /\ UNCHANGED <<agents, pods, del_pc, del_pod, rec_pods, rec_fresh,
                   failure_counts, limits, deleted, faults, pod_faults>>
    /\ UNCHANGED <<msg_vars, dm_vars, ext_vars>>

\* list_agent_pods(): names and phases of the pods that exist
TickList ==
    /\ rec_pc = "list"
    /\ rec_pods' = pods
    /\ rec_pc' = "loop"
    /\ UNCHANGED <<agents, pods, del_pc, del_pod, rec_agents, rec_idx, rec_fresh,
                   failure_counts, last_attempt, pending_seen, limits, deleted,
                   faults, pod_faults, tick_missing, tick_db_failed>>
    /\ UNCHANGED <<msg_vars, dm_vars, ext_vars>>

InLoop == rec_pc = "loop" /\ rec_idx <= Len(rec_agents)
Cur == rec_agents[rec_idx]
\* pod_name in actual_pod_names
InActual(e) == e.pod_name # None /\ rec_pods[e.pod_name[2]] # "Absent"

\* the for loop is over: back to sleep
TickEnd ==
    /\ rec_pc = "loop"
    /\ rec_idx > Len(rec_agents)
    /\ rec_pc' = "sleep"
    /\ UNCHANGED <<agents, pods, del_pc, del_pod, rec_agents, rec_idx, rec_pods,
                   rec_fresh, failure_counts, last_attempt, pending_seen, limits,
                   deleted, faults, pod_faults, tick_missing, tick_db_failed>>
    /\ UNCHANGED <<msg_vars, dm_vars, ext_vars>>

\* running, pod missing: mark as error
ReconcileMissing ==
    /\ InLoop
    /\ Cur.status = "running" /\ ~InActual(Cur)
    /\ agents' = _set_agent_status(agents, Cur.id, "error")
    /\ rec_idx' = rec_idx + 1
    /\ UNCHANGED <<pods, del_pc, del_pod, rec_pc, rec_agents, rec_pods, rec_fresh,
                   failure_counts, last_attempt, pending_seen, limits, deleted,
                   faults, pod_faults, tick_missing, tick_db_failed>>
    /\ UNCHANGED <<msg_vars, dm_vars, ext_vars>>

\* A terminate call made inside the for loop.  When it raises, the exception
\* leaves _reconcile and is caught in _run_loop: the rest of the tick is skipped.
AfterTerminate(ok) ==
    /\ pods' = delete_agent_pod(pods, Cur.id, ok)
    /\ rec_pc' = IF ok THEN "loop" ELSE "sleep"
    /\ rec_idx' = IF ok THEN rec_idx + 1 ELSE rec_idx
    /\ faults' = CountFault(ok)

\* running, pod Failed: mark as error, then delete the pod
ReconcileFailed(ok) ==
    /\ InLoop
    /\ Cur.status = "running" /\ InActual(Cur)
    /\ rec_pods[Cur.id] = "Failed"
    /\ FaultAllowed(ok)
    /\ agents' = _set_agent_status(agents, Cur.id, "error")
    /\ AfterTerminate(ok)
    /\ UNCHANGED <<del_pc, del_pod, rec_agents, rec_pods, rec_fresh,
                   failure_counts, last_attempt, pending_seen, limits, deleted,
                   pod_faults, tick_missing, tick_db_failed>>
    /\ UNCHANGED <<msg_vars, dm_vars, ext_vars>>

\* running, pod Pending: start the pending timer on first sight ...
ReconcilePendingSeen ==
    /\ InLoop
    /\ Cur.status = "running" /\ InActual(Cur)
    /\ rec_pods[Cur.id] = "Pending"
    /\ IF Cur.id \in DOMAIN pending_seen
       THEN pending_seen[Cur.id] <= _PENDING_TIMEOUT_SECONDS ELSE TRUE
    /\ pending_seen' = IF Cur.id \in DOMAIN pending_seen THEN pending_seen
                       ELSE Put(pending_seen, Cur.id, 0)
    /\ rec_idx' = rec_idx + 1
    /\ UNCHANGED <<agents, pods, del_pc, del_pod, rec_pc, rec_agents, rec_pods,
                   rec_fresh, failure_counts, last_attempt, limits, deleted,
                   faults, pod_faults, tick_missing, tick_db_failed>>
    /\ UNCHANGED <<msg_vars, dm_vars, ext_vars>>

\* ... and past the timeout mark as error, delete the pod, drop the timer
ReconcilePendingTimeout(ok) ==
    /\ InLoop
    /\ Cur.status = "running" /\ InActual(Cur)
    /\ rec_pods[Cur.id] = "Pending"
    /\ Cur.id \in DOMAIN pending_seen
    /\ pending_seen[Cur.id] > _PENDING_TIMEOUT_SECONDS
    /\ FaultAllowed(ok)
    /\ agents' = _set_agent_status(agents, Cur.id, "error")
    /\ AfterTerminate(ok)
    /\ pending_seen' = IF ok THEN Pop(pending_seen, Cur.id) ELSE pending_seen
    /\ UNCHANGED <<del_pc, del_pod, rec_agents, rec_pods, rec_fresh,
                   failure_counts, last_attempt, limits, deleted,
                   pod_faults, tick_missing, tick_db_failed>>
    /\ UNCHANGED <<msg_vars, dm_vars, ext_vars>>

WantsRecovery(e) == e.status \in {"error", "recovering"} /\ ~InActual(e)

\* no branch of the loop body applies
ReconcileNothing ==
    /\ InLoop
    /\ IF Cur.status = "running"
       THEN InActual(Cur) /\ rec_pods[Cur.id] = "Running"
       ELSE ~WantsRecovery(Cur)
    /\ rec_idx' = rec_idx + 1
    /\ UNCHANGED <<agents, pods, del_pc, del_pod, rec_pc, rec_agents, rec_pods,
                   rec_fresh, failure_counts, last_attempt, pending_seen, limits,
                   deleted, faults, pod_faults, tick_missing, tick_db_failed>>
    /\ UNCHANGED <<msg_vars, dm_vars, ext_vars>>

\* _attempt_recovery: the backoff check
FailureCount(a) == IF a \in DOMAIN failure_counts THEN failure_counts[a] ELSE 0

InBackoff(a) ==
    /\ FailureCount(a) >= _MAX_IMMEDIATE_RETRIES
    /\ a \in DOMAIN last_attempt
    /\ last_attempt[a] < Backoff(FailureCount(a))

\* _attempt_recovery, up to the first write: skip in backoff, else set recovering
RecoverBegin ==
    /\ InLoop
    /\ WantsRecovery(Cur)
    /\ IF InBackoff(Cur.id)
       THEN /\ rec_idx' = rec_idx + 1
            /\ UNCHANGED <<agents, rec_pc>>
       ELSE /\ agents' = _set_agent_status(agents, Cur.id, "recovering")
            /\ rec_pc' = "launch"
            /\ UNCHANGED rec_idx
    /\ UNCHANGED <<pods, del_pc, del_pod, rec_agents, rec_pods, rec_fresh,
                   failure_counts, last_attempt, pending_seen, limits, deleted,
                   faults, pod_faults, tick_missing, tick_db_failed>>
    /\ UNCHANGED <<msg_vars, dm_vars, ext_vars>>

\* failure_count + 1.  The count is read only through Backoff and the
\* comparison with _MAX_IMMEDIATE_RETRIES: once the backoff has reached its cap
\* a larger count behaves the same, and the model stops counting there.
Incremented(failure_count) ==
    IF failure_count >= _MAX_IMMEDIATE_RETRIES
       /\ Backoff(failure_count) = _BACKOFF_MAX_SECONDS
    THEN failure_count ELSE failure_count + 1

\* the except branch of _attempt_recovery
RecoveryFailed ==
    /\ failure_counts' = Put(failure_counts, Cur.id, Incremented(FailureCount(Cur.id)))
    /\ last_attempt' = Put(last_attempt, Cur.id, 0)
    /\ agents' = _set_agent_status(agents, Cur.id, "error")
    /\ rec_pc' = "loop"
    /\ rec_idx' = rec_idx + 1

\* re-read the agent; return if it is gone; else launch its pod
RecoverLaunch(ok) ==
    /\ rec_pc = "launch"
    /\ FaultAllowed(ok)
    /\ ok \/ Cur.id \in DOMAIN agents
    /\ IF Cur.id \notin DOMAIN agents
       THEN /\ rec_pc' = "loop"
            /\ rec_idx' = rec_idx + 1
            /\ UNCHANGED <<agents, pods, rec_fresh, failure_counts, last_attempt>>
       ELSE IF LaunchSucceeds(Cur.id, ok)
       THEN /\ pods' = create_agent_pod(pods, Cur.id)
            /\ rec_fresh' = agents[Cur.id]
            /\ rec_pc' = "commit"
            /\ UNCHANGED <<agents, rec_idx, failure_counts, last_attempt>>
       ELSE /\ RecoveryFailed
            /\ UNCHANGED <<pods, rec_fresh>>
    /\ faults' = CountFault(ok)
    /\ UNCHANGED <<del_pc, del_pod, rec_agents, rec_pods, pending_seen, limits,
                   deleted, pod_faults, tick_missing, tick_db_failed>>
    /\ UNCHANGED <<msg_vars, dm_vars, ext_vars>>

\* fresh_agent.pod_name = pod_name; fresh_agent.status = "running"; commit.
\* The UPDATE carries the attributes whose value differs from the loaded one
\* and fails (StaleDataError) when the row is gone.
\* a commit that stamps the handle but leaves the status as it finds it
Stamped_keeps_status(row, fresh, a) ==
    [status |-> row.status, pod_name |-> PodName(a)]

Stamped(row, fresh, a) ==
    [status |-> IF fresh.status # "running" THEN "running" ELSE row.status,
     pod_name |-> IF fresh.pod_name # PodName(a) THEN PodName(a) ELSE row.pod_name]

RecoverCommit(ok) ==
    /\ rec_pc = "commit"
    /\ FaultAllowed(ok)
    /\ IF ok /\ Cur.id \in DOMAIN agents
       THEN /\ agents' = [agents EXCEPT ![Cur.id] = Stamped(@, rec_fresh, Cur.id)]
            /\ failure_counts' = Pop(failure_counts, Cur.id)
            /\ last_attempt' = Pop(last_attempt, Cur.id)
            /\ rec_pc' = "loop"
            /\ rec_idx' = rec_idx + 1
       ELSE RecoveryFailed
    /\ rec_fresh' = None
    /\ faults' = CountFault(ok)
    /\ tick_db_failed' = (tick_db_failed \/ ~ok)
    /\ UNCHANGED <<pods, del_pc, del_pod, rec_agents, rec_pods, pending_seen,
                   limits, deleted, pod_faults, tick_missing>>
    /\ UNCHANGED <<msg_vars, dm_vars, ext_vars>>

\* ReconciliationLoop.stop, called by lifespan at shutdown: task.cancel() and
\* await the task.  CancelledError is raised inside the loop at the await it
\* is suspended in (the sleep, a database call, a runtime call); it is no
\* Exception, so neither _run_loop's nor _attempt_recovery's except clause
\* catches it, and the task ends where it stood.
stop ==
    /\ rec_pc # "stopped"
    /\ rec_pc' = "stopped"
    /\ UNCHANGED <<agents, pods, del_pc, del_pod, rec_agents, rec_idx, rec_pods,
                   rec_fresh, failure_counts, last_attempt, pending_seen, limits,
                   deleted, faults, pod_faults, tick_missing, tick_db_failed>>
    /\ UNCHANGED <<msg_vars, dm_vars, ext_vars>>

\* A second orchestrator replica runs lifespan too and so has its own
\* ReconciliationLoop over the same database and the same runtime, with its
\* own task position, snapshot, pod listing, failure counts and timers.  The
\* reconciler actions above are those of the replica whose turn it is; the
\* other replica's reconciler state waits in standby, and the scheduler
\* gives the turn to the other replica at any moment.
ReconcilerState ==
    [rec_pc |-> rec_pc, rec_agents |-> rec_agents, rec_idx |-> rec_idx,
     rec_pods |-> rec_pods, rec_fresh |-> rec_fresh,
     failure_counts |-> failure_counts, last_attempt |-> last_attempt,
     pending_seen |-> pending_seen, tick_missing |-> tick_missing,
     tick_db_failed |-> tick_db_failed]
\* ReconciliationLoop.__init__ and start
StartedReconciler ==
    [rec_pc |-> "sleep", rec_agents |-> <<>>, rec_idx |-> 1,
     rec_pods |-> [a \in AgentIds |-> "Absent"], rec_fresh |-> None,
     failure_counts |-> <<>>, last_attempt |-> <<>>, pending_seen |-> <<>>,
     tick_missing |-> {}, tick_db_failed |-> FALSE]

SwitchReplica ==
    /\ standby # None
    /\ standby' = ReconcilerState
    /\ rec_pc' = standby.rec_pc
    /\ rec_agents' = standby.rec_agents
    /\ rec_idx' = standby.rec_idx
    /\ rec_pods' = standby.rec_pods
    /\ rec_fresh' = standby.rec_fresh
    /\ failure_counts' = standby.failure_counts
    /\ last_attempt' = standby.last_attempt
    /\ pending_seen' = standby.pending_seen
    /\ tick_missing' = standby.tick_missing
    /\ tick_db_failed' = standby.tick_db_failed
    /\ UNCHANGED <<agents, pods, del_pc, del_pod, limits, deleted, faults, pod_faults>>
    /\ UNCHANGED <<msg_vars, dm_vars, page_vars, ws_vars, job_vars, config_vars,
                   ep_vars, live_vars, memory_vars, worker_vars>>

\* the operator's and the workers' requests
RequestNext ==
    \/ \E a \in AgentIds, configured, ok, committed \in BOOLEAN :
           CreateAgent(a, configured, ok, committed)
    \/ \E a \in AgentIds : DeleteBegin(a)
    \/ \E a \in AgentIds, ok \in BOOLEAN : DeleteTerminate(a, ok)
    \/ \E a \in AgentIds : DeleteRow(a)
    \/ \E a \in AgentIds, r \in {"ready", "error", "unhealthy"} : report_status(a, r)

\* the worker runtime
RuntimeNext ==
    \/ \E a \in AgentIds : PodStarts(a)
    \/ \E a \in AgentIds, ph \in {"Failed", "Absent"} : PodBreaks(a, ph)

\* ReconciliationLoop._run_loop
ReconcilerNext ==
    \/ \E order \in Orderings(Reconcilable) : TickRead(order)
    \/ TickList
    \/ TickEnd
    \/ ReconcileMissing
    \/ \E ok \in BOOLEAN : ReconcileFailed(ok)
    \/ ReconcilePendingSeen
    \/ \E ok \in BOOLEAN : ReconcilePendingTimeout(ok)
    \/ ReconcileNothing
    \/ RecoverBegin
    \/ \E ok \in BOOLEAN : RecoverLaunch(ok)
    \/ \E ok \in BOOLEAN : RecoverCommit(ok)

LifecycleNext == RequestNext \/ RuntimeNext \/ TimePasses \/ ReconcilerNext

----------------------------------------------------------------------------
(* Part 2: channels, membership and the DM channel lookup-or-create *)

ChannelRow(id, name, description, channel_type) ==
    [id |-> id, name |-> name, description |-> description,
     channel_type |-> channel_type]
MemberRow(channel_id, agent_id, user_identifier) ==
    [channel_id |-> channel_id, agent_id |-> agent_id,
     user_identifier |-> user_identifier]
IdleDmCall == [pc |-> "idle", agent_id |-> NULL, user_identifier |-> NULL]

ChannelInit(rows, member_rows, max_channels) ==
    /\ channels = rows
    /\ channel_members = member_rows
    /\ dm_calls = [k \in DmCallIds |-> IdleDmCall]
    /\ dm_returned = {}
    /\ channel_limit = max_channels

\* ChannelService.create_channel: the channel row, a member row per agent
\* id and one for the creator, committed together
NewChannelId(tbl) == Len(tbl) + 1
CreatedChannels(tbl, name, description, channel_type) ==
    Append(tbl, ChannelRow(NewChannelId(tbl), name, description, channel_type))
CreatedMembers(mem, id, agent_ids, creator_user_identifier) ==
    mem \cup {MemberRow(id, a, NULL) : a \in agent_ids}
        \cup (IF creator_user_identifier # NULL
              THEN {MemberRow(id, NULL, creator_user_identifier)} ELSE {})

create_channel(name, channel_type, creator_user_identifier, agent_ids) ==
    /\ Len(channels) < channel_limit
    /\ channels' = CreatedChannels(channels, name, NULL, channel_type)
    /\ channel_members' = CreatedMembers(channel_members, NewChannelId(channels),
                                         agent_ids, creator_user_identifier)
    /\ UNCHANGED <<dm_calls, dm_returned, channel_limit>>
    /\ UNCHANGED <<lifecycle_vars, msg_vars, ext_vars>>

\* the member lookup shared by add_member and remove_member: by agent id
\* when one is given, else by user identifier
MemberMatches(channel_id, agent_id, user_identifier) ==
    {m \in channel_members :
        /\ m.channel_id = channel_id
        /\ IF agent_id # NULL THEN m.agent_id = agent_id
           ELSE m.user_identifier = user_identifier}

\* ChannelService.add_member (the calls that raise ValueError change nothing)
add_member(channel_id, agent_id, user_identifier) ==
    /\ channel_id \in DOMAIN channels
    /\ agent_id # NULL \/ user_identifier # NULL
    /\ MemberMatches(channel_id, agent_id, user_identifier) = {}
    /\ channel_members' =
           channel_members \cup {MemberRow(channel_id, agent_id, user_identifier)}
    /\ UNCHANGED <<channels, dm_calls, dm_returned, channel_limit>>
    /\ UNCHANGED <<lifecycle_vars, msg_vars, ext_vars>>

\* ChannelService.remove_member: deletes the first matching row
remove_member(channel_id, agent_id, user_identifier) ==
    /\ \E m \in MemberMatches(channel_id, agent_id, user_identifier) :
           channel_members' = channel_members \ {m}
    /\ UNCHANGED <<channels, dm_calls, dm_returned, channel_limit>>
    /\ UNCHANGED <<lifecycle_vars, msg_vars, ext_vars>>

\* ChannelService.get_channel_agent_ids
get_channel_agent_ids(channel_id) ==
    {m.agent_id : m \in {r \in channel_members :
                            r.channel_id = channel_id /\ r.agent_id # NULL}}

\* the select of get_or_create_dm_channel: dm channels that have the agent
\* as a member and the user as a member
DmChannelMatches(agent_id, user_identifier) ==
    {c \in DOMAIN channels :
        /\ channels[c].channel_type = "dm"
        /\ \E m \in channel_members : m.channel_id = c /\ m.agent_id = agent_id
        /\ \E m \in channel_members :
               m.channel_id = c /\ m.user_identifier = user_identifier}

CreatingDmCalls == {k \in DmCallIds : dm_calls[k].pc = "create"}

\* get_or_create_dm_channel up to its select: an existing channel (the
\* first row of the result, in no defined order) is returned at once
DmLookupFound(k, agent_id, user_identifier) ==
    /\ dm_calls[k].pc = "idle"
    /\ \E c \in DmChannelMatches(agent_id, user_identifier) :
           dm_returned' = dm_returned \cup
               {[agent_id |-> agent_id, user_identifier |-> user_identifier,
                 channel_id |-> c]}
    /\ UNCHANGED <<channels, channel_members, dm_calls, channel_limit>>
    /\ UNCHANGED <<lifecycle_vars, msg_vars, ext_vars>>

DmLookupMissing(k, agent_id, user_identifier) ==
    /\ dm_calls[k].pc = "idle"
    /\ DmChannelMatches(agent_id, user_identifier) = {}
    /\ Len(channels) + Cardinality(CreatingDmCalls) < channel_limit
    /\ dm_calls' = [dm_calls EXCEPT ![k] =
           [pc |-> "create", agent_id |-> agent_id,
            user_identifier |-> user_identifier]]
    /\ UNCHANGED <<channels, channel_members, dm_returned, channel_limit>>
    /\ UNCHANGED <<lifecycle_vars, msg_vars, ext_vars>>

\* get_or_create_dm_channel after a lookup that found nothing:
\* create_channel(name DM, type dm, agent_ids [agent_id], creator user)
DmCreate(k) ==
    /\ dm_calls[k].pc = "create"
    /\ channels' = CreatedChannels(channels, "DM", dm_calls[k].agent_id, "dm")
    /\ channel_members' =
           CreatedMembers(channel_members, NewChannelId(channels),
                          {dm_calls[k].agent_id}, dm_calls[k].user_identifier)
    /\ dm_returned' = dm_returned \cup
           {[agent_id |-> dm_calls[k].agent_id,
             user_identifier |-> dm_calls[k].user_identifier,
             channel_id |-> NewChannelId(channels)]}
    /\ dm_calls' = [dm_calls EXCEPT ![k] = IdleDmCall]
    /\ UNCHANGED channel_limit
    /\ UNCHANGED <<lifecycle_vars, msg_vars, ext_vars>>

\* requests for DM channels of the agents A and users H
DmNext(A, H) ==
    \/ \E k \in DmCallIds, a \in A, h \in H : DmLookupFound(k, a, h)
    \/ \E k \in DmCallIds, a \in A, h \in H : DmLookupMissing(k, a, h)
    \/ \E k \in DmCallIds : DmCreate(k)

\* membership requests for the agents A and users H
MemberNext(A, H) ==
    \/ \E c \in 1..MaxChannels, a \in A : add_member(c, a, NULL)
    \/ \E c \in 1..MaxChannels, h \in H : add_member(c, NULL, h)
    \/ \E c \in 1..MaxChannels, a \in A : remove_member(c, a, NULL)
    \/ \E c \in 1..MaxChannels, h \in H : remove_member(c, NULL, h)

NoChannels == ChannelInit(<<>>, {}, 0)

----------------------------------------------------------------------------
(* Part 3: messages, read cursors and the CommunicationService routing *)

\* Text is a sequence of one-character strings.
Lowers == <<"a", "b", "c", "d", "l", "x">>
Uppers == <<"A", "B", "C", "D", "L", "X">>
WordChars ==
    {Lowers[i] : i \in DOMAIN Lowers} \cup {Uppers[i] : i \in DOMAIN Uppers}
        \cup {"_"}
lower_char(c) ==
    IF \E i \in DOMAIN Uppers : Uppers[i] = c
    THEN Lowers[CHOOSE i \in DOMAIN Uppers : Uppers[i] = c] ELSE c
\* str.lower and str.replace (of one character by another)
lower(s) == [i \in DOMAIN s |-> lower_char(s[i])]
replace(s, old, new) == [i \in DOMAIN s |-> IF s[i] = old THEN new ELSE s[i]]

\* _MENTION_PATTERN.findall: the maximal runs of [\w-] that follow an @,
\* scanning from the left without overlap
InToken(c) == c \in WordChars \cup {"-"}
RECURSIVE TokenEnd(_, _)
TokenEnd(s, i) == IF i < Len(s) /\ InToken(s[i + 1]) THEN TokenEnd(s, i + 1) ELSE i
RECURSIVE findall(_, _)
findall(s, i) ==
    IF i > Len(s) THEN <<>>
    ELSE IF s[i] = "@" /\ i < Len(s) /\ InToken(s[i + 1])
         THEN <<SubSeq(s, i + 1, TokenEnd(s, i + 1))>>
                  \o findall(s, TokenEnd(s, i + 1) + 1)
         ELSE findall(s, i + 1)

\* Agent.name of the two agents
agent_name(a) == IF a = "a1" THEN <<"A", "l", " ", "B">> ELSE <<"c", "-", "d">>

MessageRow(id, channel_id, content, message_type, sender_agent_id, sender_user_identifier, created_at) ==
    [id |-> id, channel_id |-> channel_id, content |-> content,
     message_type |-> message_type, sender_agent_id |-> sender_agent_id,
     sender_user_identifier |-> sender_user_identifier,
     created_at |-> created_at]
IdleSend == [pc |-> "idle", msg |-> None, mentioned |-> {}]

MsgInit(max_messages, max_clock) ==
    /\ clock = 0
    /\ messages = <<>>
    /\ read_cursors = {}
    /\ unread = None
    /\ send = IdleSend
    /\ returned = {}
    /\ frames = <<>>
    /\ dm_jobs = <<>>
    /\ eval_jobs = <<>>
    /\ msg_limits = [messages |-> max_messages, clock |-> max_clock]

\* time passes
Tick ==
    /\ clock < msg_limits.clock
    /\ clock' = clock + 1
    /\ UNCHANGED <<messages, read_cursors, unread, send, returned, frames,
                   dm_jobs, eval_jobs, msg_limits>>
    /\ UNCHANGED <<lifecycle_vars, dm_vars, ext_vars>>

\* MessageService.create_message: one new row, created_at = now()
NewMessage(tbl, channel_id, content, message_type, sender_agent_id, sender_user_identifier) ==
    MessageRow(Len(tbl) + 1, channel_id, content, message_type,
               sender_agent_id, sender_user_identifier, clock)
\* a variant that stores the row twice
create_message_twice(tbl, row) == Append(Append(tbl, row), row)

create_message(tbl, row) == Append(tbl, row)

\* a message stored through MessageService.create_message alone
PostMessage(channel_id, content, sender_agent_id, sender_user_identifier) ==
    /\ Len(messages) < msg_limits.messages
    /\ channel_id \in DOMAIN channels
    /\ messages' = create_message(messages,
           NewMessage(messages, channel_id, content, "chat", sender_agent_id,
                      sender_user_identifier))
    /\ UNCHANGED <<clock, read_cursors, unread, send, returned, frames,
                   dm_jobs, eval_jobs, msg_limits>>
    /\ UNCHANGED <<lifecycle_vars, dm_vars, ext_vars>>

ChannelMessages(channel_id) ==
    {i \in DOMAIN messages : messages[i].channel_id = channel_id}

\* ORDER BY created_at DESC, id DESC (rows equal in both in any order)
Newer(i, j) ==
    \/ messages[i].created_at > messages[j].created_at
    \/ /\ messages[i].created_at = messages[j].created_at
       /\ \/ messages[i].id > messages[j].id
          \/ messages[i].id = messages[j].id /\ i > j
RECURSIVE NewestFirst(_)
NewestFirst(S) ==
    IF S = {} THEN <<>>
    ELSE LET top == CHOOSE i \in S : \A j \in S \ {i} : Newer(i, j)
         IN <<messages[top]>> \o NewestFirst(S \ {top})

\* default page size of get_message_history
page_size_default == 50

\* a variant whose cursor filter compares the creation instant alone
get_message_history_by_instant(channel_id, page_size, before) ==
    LET hits == {i \in ChannelMessages(channel_id) :
                    \/ before = None
                    \/ messages[i].created_at < before[1]}
        rows == NewestFirst(hits)
    IN [messages |-> SubSeq(rows, 1, Min(Len(rows), page_size)),
        has_next |-> Len(rows) > page_size,
        has_prev |-> before # None]

\* MessageService.get_message_history; before is None or <<created_at, id>>
get_message_history(channel_id, page_size, before) ==
    LET hits == {i \in ChannelMessages(channel_id) :
                    \/ before = None
                    \/ messages[i].created_at < before[1]
                    \/ /\ messages[i].created_at = before[1]
                       /\ messages[i].id < before[2]}
        rows == NewestFirst(hits)
    IN [messages |-> SubSeq(rows, 1, Min(Len(rows), page_size)),
        has_next |-> Len(rows) > page_size,
        has_prev |-> before # None]

CursorRow(channel_id, agent_id, user_identifier, last_read_message_id, last_read_at) ==
    [channel_id |-> channel_id, agent_id |-> agent_id,
     user_identifier |-> user_identifier,
     last_read_message_id |-> last_read_message_id,
     last_read_at |-> last_read_at]

\* MessageService._get_read_cursor: the rows its select matches
_get_read_cursor(channel_id, agent_id, user_identifier) ==
    {c \in read_cursors :
        /\ c.channel_id = channel_id
        /\ IF agent_id # NULL THEN c.agent_id = agent_id
           ELSE c.user_identifier = user_identifier}

\* uq_read_cursor_channel_agent / uq_read_cursor_channel_user: a new row
\* whose non-null agent_id or user_identifier is already stored for the
\* channel is refused by the database (nulls never collide)
CursorCollides(channel_id, agent_id, user_identifier) ==
    \E c \in read_cursors :
        /\ c.channel_id = channel_id
        /\ \/ agent_id # NULL /\ c.agent_id = agent_id
           \/ user_identifier # NULL /\ c.user_identifier = user_identifier

\* MessageService.update_read_cursor: upsert with last_read_at = now
update_read_cursor(channel_id, last_read_message_id, agent_id, user_identifier) ==
    /\ last_read_message_id \in DOMAIN messages
    /\ LET found == _get_read_cursor(channel_id, agent_id, user_identifier) IN
        IF found # {}
        THEN \E cursor \in found :
                read_cursors' = (read_cursors \ {cursor}) \cup
                    {[cursor EXCEPT !.last_read_message_id = last_read_message_id,
                                    !.last_read_at = clock]}
        ELSE IF CursorCollides(channel_id, agent_id, user_identifier)
        THEN UNCHANGED read_cursors
        ELSE read_cursors' = read_cursors \cup
                 {CursorRow(channel_id, agent_id, user_identifier,
                            last_read_message_id, clock)}
    /\ UNCHANGED <<clock, messages, unread, send, returned, frames, dm_jobs,
                   eval_jobs, msg_limits>>
    /\ UNCHANGED <<lifecycle_vars, dm_vars, ext_vars>>

\* the rows get_unread_count counts and get_unread_messages returns: all
\* rows of the channel, or those created after the cursor's last_read_at
UnreadRows(channel_id, agent_id, user_identifier) ==
    LET found == _get_read_cursor(channel_id, agent_id, user_identifier) IN
    {i \in ChannelMessages(channel_id) :
        \A c \in found : messages[i].created_at > c.last_read_at}
\* a variant whose filter also counts the rows created at last_read_at
get_unread_count_from(channel_id, agent_id, user_identifier) ==
    LET read_cursor == _get_read_cursor(channel_id, agent_id, user_identifier) IN
    Cardinality({i \in DOMAIN messages :
        /\ messages[i].channel_id = channel_id
        /\ \A c \in read_cursor : messages[i].created_at >= c.last_read_at})
\* MessageService.get_unread_count: select count() with its own filter
get_unread_count(channel_id, agent_id, user_identifier) ==
    LET read_cursor == _get_read_cursor(channel_id, agent_id, user_identifier) IN
    Cardinality({i \in DOMAIN messages :
        /\ messages[i].channel_id = channel_id
        /\ \A c \in read_cursor : messages[i].created_at > c.last_read_at})
\* ORDER BY created_at ASC: every order of the rows the clause allows
RECURSIVE OldestFirst(_)
OldestFirst(S) ==
    IF S = {} THEN {<<>>}
    ELSE UNION {{<<messages[i].id>> \o rest : rest \in OldestFirst(S \ {i})} :
                   i \in {j \in S : \A k \in S :
                              messages[j].created_at <= messages[k].created_at}}
get_unread_messages(channel_id, agent_id, user_identifier) ==
    OldestFirst(UnreadRows(channel_id, agent_id, user_identifier))

\* GET /channels/{id}/messages/unread
GetUnread(channel_id, agent_id, user_identifier) ==
    /\ channel_id \in DOMAIN channels
    /\ \E listed \in get_unread_messages(channel_id, agent_id, user_identifier) :
           unread' = [channel_id |-> channel_id, agent_id |-> agent_id,
                      user_identifier |-> user_identifier, messages |-> listed,
                      unread_count |->
                          get_unread_count(channel_id, agent_id, user_identifier)]
    /\ UNCHANGED <<clock, messages, read_cursors, send, returned, frames,
                   dm_jobs, eval_jobs, msg_limits>>
    /\ UNCHANGED <<lifecycle_vars, dm_vars, ext_vars>>

\* POST /channels/{id}/messages/read: 422 when neither reader is given,
\* else MessageService.update_read_cursor with both query parameters
mark_messages_read(channel_id, last_read_message_id, agent_id, user_identifier) ==
    IF agent_id = NULL /\ user_identifier = NULL
    THEN /\ last_read_message_id \in DOMAIN messages
         /\ UNCHANGED vars
    ELSE update_read_cursor(channel_id, last_read_message_id, agent_id,
                            user_identifier)

\* jobs handed to the task queue: job -> number of times it was enqueued
Job(agent_id, message_id) == [agent_id |-> agent_id, message_id |-> message_id]
Enqueued(queue, job) == IF job \in DOMAIN queue THEN queue[job] ELSE 0
Enqueue(queue, jobs) ==
    [j \in DOMAIN queue \cup jobs |->
        Enqueued(queue, j) + (IF j \in jobs THEN 1 ELSE 0)]

\* the frame send_channel_message publishes
ws_msg(msg) ==
    [type |-> "message", id |-> msg.id, channel_id |-> msg.channel_id,
     sender_type |-> IF msg.sender_user_identifier # NULL THEN "user" ELSE "agent",
     content |-> msg.content]

\* _handle_mentions: the channel's agents one of whose name variants is
\* among the lower-cased tokens; each gets one deliver_to_agent call
mentioned_names_lower(content) ==
    {lower(findall(content, 1)[k]) : k \in DOMAIN findall(content, 1)}
NameMentioned(name, content) ==
    LET name_lower == lower(name)
        name_underscored == replace(replace(name_lower, " ", "_"), "-", "_")
        name_hyphenated == replace(name_lower, " ", "-")
    IN \/ name_lower \in mentioned_names_lower(content)
       \/ name_underscored \in mentioned_names_lower(content)
       \/ name_hyphenated \in mentioned_names_lower(content)
MentionTargets(channel_id, content) ==
    {a \in get_channel_agent_ids(channel_id) :
        NameMentioned(agent_name(a), content)}

\* a variant that skips nobody
EvalTargets_all(agent_ids, exclude) == agent_ids

\* _handle_instant_replies: every agent of the channel not in exclude
EvalTargets(agent_ids, exclude) == agent_ids \ exclude

\* send_channel_message, step 1: create_message (flush, commit, refresh)
SendPersist(channel_id, content, sender_user_identifier, sender_agent_id) ==
    /\ send.pc = "idle"
    /\ Len(messages) < msg_limits.messages
    /\ channel_id \in DOMAIN channels
    /\ LET row == NewMessage(messages, channel_id, content, "chat",
                             sender_agent_id, sender_user_identifier) IN
        /\ messages' = create_message(messages, row)
        /\ send' = [pc |-> "publish", msg |-> row, mentioned |-> {}]
    /\ UNCHANGED <<clock, read_cursors, unread, returned, frames, dm_jobs,
                   eval_jobs, msg_limits>>
    /\ UNCHANGED <<lifecycle_vars, dm_vars, ext_vars>>

\* step 3: deliver_to_channel (redis publish); when it raises the call ends
SendPublish(ok) ==
    /\ send.pc = "publish"
    /\ frames' = IF ok THEN Append(frames, ws_msg(send.msg)) ELSE frames
    /\ send' = IF ok THEN [send EXCEPT !.pc = "mentions"] ELSE IdleSend
    /\ UNCHANGED <<clock, messages, read_cursors, unread, returned, dm_jobs,
                   eval_jobs, msg_limits>>
    /\ UNCHANGED <<lifecycle_vars, dm_vars, ext_vars>>

\* a variant that takes any sender for a human
HumanSent_any(msg) ==
    msg.sender_user_identifier # NULL \/ msg.sender_agent_id # NULL
\* `if sender_user_identifier and not sender_agent_id`
HumanSent(msg) ==
    msg.sender_user_identifier # NULL /\ msg.sender_agent_id = NULL

\* step 4: _handle_mentions; when a deliver_to_agent raises, the jobs
\* enqueued before it stay and the call ends
SendMentions(ok) ==
    /\ send.pc = "mentions"
    /\ LET targets == MentionTargets(send.msg.channel_id, send.msg.content) IN
        IF ok
        THEN /\ dm_jobs' = Enqueue(dm_jobs, {Job(a, send.msg.id) : a \in targets})
             /\ send' = [send EXCEPT
                    !.pc = IF HumanSent(send.msg) THEN "evaluate" ELSE "return",
                    !.mentioned = targets]
        ELSE /\ targets # {}
             /\ \E done \in SUBSET targets \ {targets} :
                    dm_jobs' = Enqueue(dm_jobs, {Job(a, send.msg.id) : a \in done})
             /\ send' = IdleSend
    /\ UNCHANGED <<clock, messages, read_cursors, unread, returned, frames,
                   eval_jobs, msg_limits>>
    /\ UNCHANGED <<lifecycle_vars, dm_vars, ext_vars>>

\* step 5 (human senders only): _handle_instant_replies
SendEvaluate(ok) ==
    /\ send.pc = "evaluate"
    /\ LET targets == EvalTargets(get_channel_agent_ids(send.msg.channel_id),
                                  send.mentioned) IN
        IF ok
        THEN /\ eval_jobs' =
                    Enqueue(eval_jobs, {Job(a, send.msg.id) : a \in targets})
             /\ send' = [send EXCEPT !.pc = "return"]
        ELSE /\ targets # {}
             /\ \E done \in SUBSET targets \ {targets} :
                    eval_jobs' =
                        Enqueue(eval_jobs, {Job(a, send.msg.id) : a \in done})
             /\ send' = IdleSend
    /\ UNCHANGED <<clock, messages, read_cursors, unread, returned, frames,
                   dm_jobs, msg_limits>>
    /\ UNCHANGED <<lifecycle_vars, dm_vars, ext_vars>>

\* return msg
SendReturn ==
    /\ send.pc = "return"
    /\ returned' = returned \cup {send.msg.id}
    /\ send' = IdleSend
    /\ UNCHANGED <<clock, messages, read_cursors, unread, frames, dm_jobs,
                   eval_jobs, msg_limits>>
    /\ UNCHANGED <<lifecycle_vars, dm_vars, ext_vars>>

\* send_system_message, step 1: create_message with type system, no sender
SystemPersist(channel_id, content) ==
    /\ send.pc = "idle"
    /\ Len(messages) < msg_limits.messages
    /\ channel_id \in DOMAIN channels
    /\ LET row == NewMessage(messages, channel_id, content, "system", NULL, NULL) IN
        /\ messages' = create_message(messages, row)
        /\ send' = [pc |-> "system", msg |-> row, mentioned |-> {}]
    /\ UNCHANGED <<clock, read_cursors, unread, returned, frames, dm_jobs,
                   eval_jobs, msg_limits>>
    /\ UNCHANGED <<lifecycle_vars, dm_vars, ext_vars>>

\* step 2: deliver_to_channel, then return msg; when it raises the call ends
SystemPublish(ok) ==
    /\ send.pc = "system"
    /\ frames' = IF ok THEN Append(frames, ws_msg(send.msg)) ELSE frames
    /\ returned' = IF ok THEN returned \cup {send.msg.id} ELSE returned
    /\ send' = IdleSend
    /\ UNCHANGED <<clock, messages, read_cursors, unread, dm_jobs, eval_jobs,
                   msg_limits>>
    /\ UNCHANGED <<lifecycle_vars, dm_vars, ext_vars>>

NoMessages == MsgInit(0, 0)

\* message_type values SendMessageRequest lets through
MessageTypes == {"chat", "system", "dm"}
\* POST /channels/{channel_id}/messages: 422 when neither sender is given,
\* else CommunicationService.send_channel_message with the body's
\* message_type, whose first step is create_message
send_channel_message(channel_id, content, message_type, sender_agent_id, sender_user_identifier) ==
    /\ send.pc = "idle"
    /\ Len(messages) < msg_limits.messages
    /\ channel_id \in DOMAIN channels
    /\ IF sender_agent_id = NULL /\ sender_user_identifier = NULL
       THEN UNCHANGED <<messages, send>>
       ELSE LET row == NewMessage(messages, channel_id, content, message_type,
                                  sender_agent_id, sender_user_identifier) IN
            /\ messages' = create_message(messages, row)
            /\ send' = [pc |-> "publish", msg |-> row, mentioned |-> {}]
    /\ UNCHANGED <<clock, read_cursors, unread, returned, frames, dm_jobs,
                   eval_jobs, msg_limits>>
    /\ UNCHANGED <<lifecycle_vars, dm_vars, ext_vars>>

----------------------------------------------------------------------------
(* Part 4: cursor pagination *)

HistoryMessages == 5
HistoryClock == 2
MaxPageSize == 3

\* datetime.isoformat and datetime.fromisoformat, on instants written as
\* decimal digits
Digits == <<"0", "1", "2", "3", "4", "5", "6", "7", "8", "9">>
RECURSIVE isoformat(_)
isoformat(t) ==
    IF t < 10 THEN <<Digits[t + 1]>>
    ELSE isoformat(t \div 10) \o <<Digits[(t % 10) + 1]>>
DigitValue(c) == (CHOOSE d \in 1..10 : Digits[d] = c) - 1
RECURSIVE fromisoformat(_)
fromisoformat(s) ==
    IF Len(s) = 1 THEN DigitValue(s[1])
    ELSE 10 * fromisoformat(SubSeq(s, 1, Len(s) - 1)) + DigitValue(s[Len(s)])

\* the opaque cursor: the JSON object {"c": ..., "i": ...} (its base64
\* wrapping is a bijection and is left out)
encode_cursor(created_at, id) == [c |-> isoformat(created_at), i |-> id]
decode_cursor(cursor) == <<fromisoformat(cursor.c), cursor.i>>

IdleWalk == [pc |-> "idle", page_size |-> 0, pages |-> <<>>, next |-> None]
IdleListing == [pc |-> "idle", page_size |-> 0, sort_desc |-> FALSE, pages |-> <<>>, next |-> None]
PageInit(rows) ==
    /\ walk = IdleWalk
    /\ agent_rows = rows
    /\ listing = IdleListing
NoPaging == PageInit({})

\* GET /channels/{id}/messages: the service's page, and links.next built
\* from the last (oldest) message when has_next
HistoryResponse(channel_id, page_size, before) ==
    LET r == get_message_history(channel_id, page_size,
                 IF before = None THEN None ELSE decode_cursor(before))
        oldest_msg == r.messages[Len(r.messages)]
    IN [messages |-> r.messages, has_next |-> r.has_next,
        has_prev |-> r.has_prev,
        next |-> IF r.has_next /\ r.messages # <<>>
                 THEN encode_cursor(oldest_msg.created_at, oldest_msg.id)
                 ELSE None]

Walked(r, page_size) ==
    [pc |-> IF r.next = None THEN "done" ELSE "paging",
     page_size |-> page_size, pages |-> Append(walk.pages, r), next |-> r.next]

\* the client asks for the first page
HistoryFirst(channel_id, page_size) ==
    /\ walk.pc = "idle"
    /\ LET r == HistoryResponse(channel_id, page_size, None)
       IN walk' = [Walked(r, page_size) EXCEPT !.pages = <<r>>]
    /\ UNCHANGED <<agent_rows, listing>>
    /\ UNCHANGED not_page_vars

\* the client follows links.next of the page it received last
HistoryNext(channel_id) ==
    /\ walk.pc = "paging"
    /\ walk' = Walked(HistoryResponse(channel_id, walk.page_size, walk.next),
                      walk.page_size)
    /\ UNCHANGED <<agent_rows, listing>>
    /\ UNCHANGED not_page_vars

\* rows of the agents table as the listing sees them: ids are random UUIDs,
\* written as their rank in UUID order, unrelated to the creation instant
ListAgents == 3
ListClock == 1
AgentRow(id, created_at) == [id |-> id, created_at |-> created_at]
AgentTables ==
    {rows \in SUBSET {AgentRow(id, t) : id \in 1..ListAgents, t \in 0..ListClock} :
        \A r1, r2 \in rows : r1.id = r2.id => r1 = r2}

\* ORDER BY created_at ASC|DESC, id ASC
ListedBefore(r1, r2, sort_desc) ==
    \/ IF sort_desc THEN r1.created_at > r2.created_at
       ELSE r1.created_at < r2.created_at
    \/ r1.created_at = r2.created_at /\ r1.id < r2.id
RECURSIVE ListOrder(_, _)
ListOrder(S, sort_desc) ==
    IF S = {} THEN <<>>
    ELSE LET top == CHOOSE r \in S :
                        \A q \in S \ {r} : ListedBefore(r, q, sort_desc)
         IN <<top>> \o ListOrder(S \ {top}, sort_desc)

\* AgentService.list_agents sorted by created_at, without a status filter;
\* after is None or <<created_at, id>>
list_agents(page_size, after, sort_desc) ==
    LET hits == {r \in agent_rows :
                    \/ after = None
                    \/ IF sort_desc
                       THEN \/ r.created_at < after[1]
                            \/ r.created_at = after[1] /\ r.id < after[2]
                       ELSE \/ r.created_at > after[1]
                            \/ r.created_at = after[1] /\ r.id > after[2]}
        rows == ListOrder(hits, sort_desc)
    IN [agents |-> SubSeq(rows, 1, Min(Len(rows), page_size)),
        has_next |-> Len(rows) > page_size,
        has_prev |-> after # None]

\* GET /agents?sort=[-]created_at: the page and links.next built from the
\* last agent of the page when has_next
ListResponse(page_size, page_after, sort_desc) ==
    LET r == list_agents(page_size,
                 IF page_after = None THEN None ELSE decode_cursor(page_after),
                 sort_desc)
        last_agent == r.agents[Len(r.agents)]
    IN [agents |-> r.agents, has_next |-> r.has_next, has_prev |-> r.has_prev,
        next |-> IF r.has_next /\ r.agents # <<>>
                 THEN encode_cursor(last_agent.created_at, last_agent.id)
                 ELSE None]

Listed(r, page_size, sort_desc) ==
    [pc |-> IF r.next = None THEN "done" ELSE "paging",
     page_size |-> page_size, sort_desc |-> sort_desc,
     pages |-> Append(listing.pages, r), next |-> r.next]

\* the client asks for the first page
ListFirst(page_size, sort_desc) ==
    /\ listing.pc = "idle"
    /\ listing' = Listed(ListResponse(page_size, None, sort_desc), page_size,
                         sort_desc)
    /\ UNCHANGED <<walk, agent_rows>>
    /\ UNCHANGED not_page_vars

\* the client follows links.next of the page it received last
ListNext ==
    /\ listing.pc = "paging"
    /\ listing' = Listed(ListResponse(listing.page_size, listing.next,
                                      listing.sort_desc),
                         listing.page_size, listing.sort_desc)
    /\ UNCHANGED <<walk, agent_rows>>
    /\ UNCHANGED not_page_vars

\* rows with a display name (written as its rank in collation order; names
\* are not unique)
ListNames == 2
NamedRow(id, created_at, name) == [id |-> id, created_at |-> created_at, name |-> name]
NamedTables ==
    {rows \in SUBSET {NamedRow(id, t, n) : id \in 1..ListAgents, t \in 0..ListClock,
                                          n \in 1..ListNames} :
        \A r1, r2 \in rows : r1.id = r2.id => r1 = r2}

\* ORDER BY name ASC|DESC, id ASC
NamedBefore(r1, r2, sort_desc) ==
    \/ IF sort_desc THEN r1.name > r2.name ELSE r1.name < r2.name
    \/ r1.name = r2.name /\ r1.id < r2.id
RECURSIVE NameOrder(_, _)
NameOrder(S, sort_desc) ==
    IF S = {} THEN <<>>
    ELSE LET top == CHOOSE r \in S :
                        \A q \in S \ {r} : NamedBefore(r, q, sort_desc)
         IN <<top>> \o NameOrder(S \ {top}, sort_desc)

\* AgentService.list_agents with sort_by = "name", without a status filter:
\* the cursor filter is on (created_at, id) whatever the sort column is
list_agents_by_name(page_size, after, sort_desc) ==
    LET hits == {r \in agent_rows :
                    \/ after = None
                    \/ IF sort_desc
                       THEN \/ r.created_at < after[1]
                            \/ r.created_at = after[1] /\ r.id < after[2]
                       ELSE \/ r.created_at > after[1]
                            \/ r.created_at = after[1] /\ r.id > after[2]}
        rows == NameOrder(hits, sort_desc)
    IN [agents |-> SubSeq(rows, 1, Min(Len(rows), page_size)),
        has_next |-> Len(rows) > page_size,
        has_prev |-> after # None]

\* GET /agents?sort=[-]name: the router drops page[after] when the sort field
\* is not created_at, and still builds links.next from the page's last agent
NameResponse(page_size, page_after, sort_desc) ==
    LET effective_cursor == None
        r == list_agents_by_name(page_size,
                 IF effective_cursor = None THEN None
                 ELSE decode_cursor(effective_cursor), sort_desc)
        last_agent == r.agents[Len(r.agents)]
    IN [agents |-> r.agents, has_next |-> r.has_next, has_prev |-> r.has_prev,
        next |-> IF r.has_next /\ r.agents # <<>>
                 THEN encode_cursor(last_agent.created_at, last_agent.id)
                 ELSE None]

\* the client asks for the first page sorted by name ...
NameFirst(page_size, sort_desc) ==
    /\ listing.pc = "idle"
    /\ listing' = Listed(NameResponse(page_size, None, sort_desc), page_size,
                         sort_desc)
    /\ UNCHANGED <<walk, agent_rows>>
    /\ UNCHANGED not_page_vars

\* ... and follows links.next of the page it received last, for as many
\* requests as the model counts
MaxNameRequests == 4
NameNext ==
    /\ listing.pc = "paging"
    /\ Len(listing.pages) < MaxNameRequests
    /\ listing' = Listed(NameResponse(listing.page_size, listing.next,
                                      listing.sort_desc),
                         listing.page_size, listing.sort_desc)
    /\ UNCHANGED <<walk, agent_rows>>
    /\ UNCHANGED not_page_vars


----------------------------------------------------------------------------
(* Part 5: WebSocket sessions, the pub/sub listener and the broadcast *)

Replicas == {"r1", "r2"}
WsChannelIds == {1, 2}
\* sessions <<replica, channel_id, client_id>> that clients may open
WsSessions ==
    {<<"r1", 1, "u1">>, <<"r1", 1, "u2">>, <<"r1", 2, "u1">>, <<"r2", 1, "u1">>}
MaxFrames == 2
MaxConnects == 4

CHANNEL_PREFIX == "ws:channel:"
\* f"{CHANNEL_PREFIX}{channel_id}" and message["channel"].removeprefix(...)
topic(channel_id) == <<CHANNEL_PREFIX, channel_id>>
removeprefix(t, prefix) == IF t[1] = prefix THEN t[2] ELSE t
\* json.dumps of a frame, and json.loads of a payload (None: it raised)
json_dumps(message) == <<"json", message>>
json_loads(data) == IF data[1] = "json" THEN data[2] ELSE None
Garbage == <<"{">>

Frame(id, channel_id) == [type |-> "message", id |-> id, channel_id |-> channel_id]
Listening == [pc |-> "listen", channel_id |-> 0, data |-> None, client_id |-> NULL, pos |-> 0, used |-> 0, stale |-> FALSE, dead |-> <<>>]

WsInit(connects, max_frames, send_faults, read_faults, garbage, stalls) ==
    /\ cm_channels = [r \in Replicas |-> [c \in WsChannelIds |-> <<>>]]
    /\ inbox = [r \in Replicas |-> <<>>]
    /\ listener = [r \in Replicas |-> Listening]
    /\ sockets = [s \in WsSessions |-> <<>>]
    /\ stuck = {}
    /\ published = <<>>
    /\ attached_since = [f \in 1..max_frames |-> {}]
    /\ ws_used = [connects |-> 0, send_faults |-> 0, read_faults |-> 0,
                  garbage |-> 0]
    /\ ws_limits = [connects |-> connects, frames |-> max_frames,
                    send_faults |-> send_faults, read_faults |-> read_faults,
                    garbage |-> garbage, stalls |-> stalls]
NoWs == WsInit(0, 0, 0, 0, 0, 0)

\* the positions of a dict's entries that hold an item
Live(entries) == {i \in DOMAIN entries : entries[i] # NULL}
Attached(s) ==
    \E i \in Live(cm_channels[s[1]][s[2]]) : cm_channels[s[1]][s[2]][i] = s[3]
AttachedTo(channel_id) == {s \in WsSessions : s[2] = channel_id /\ Attached(s)}

\* ConnectionManager.connect: a new key goes to the end of the dict
Connected(cm, channel_id, client_id) ==
    [cm EXCEPT ![channel_id] = Append(@, client_id)]
\* ConnectionManager.disconnect: pop the key, drop the dict when empty
Disconnected(cm, channel_id, client_id) ==
    LET popped == [i \in DOMAIN cm[channel_id] |->
                      IF cm[channel_id][i] = client_id THEN NULL
                      ELSE cm[channel_id][i]]
    IN [cm EXCEPT ![channel_id] = IF Live(popped) = {} THEN <<>> ELSE popped]

\* channel_websocket up to connection_manager.connect
Connect(s) ==
    /\ s \in WsSessions
    /\ ~Attached(s)
    /\ ws_used.connects < ws_limits.connects
    /\ cm_channels' = [cm_channels EXCEPT ![s[1]] = Connected(@, s[2], s[3])]
    /\ ws_used' = [ws_used EXCEPT !.connects = @ + 1]
    /\ UNCHANGED <<inbox, listener, sockets, stuck, published, attached_since,
                   ws_limits>>
    /\ UNCHANGED not_ws_vars

\* the listener of replica r is inside send_to_channel's loop over the
\* dict of channel_id
Iterating(r, channel_id) ==
    listener[r].pc = "send" /\ listener[r].channel_id = channel_id

\* channel_websocket's finally: connection_manager.disconnect
Disconnect(s) ==
    /\ Attached(s)
    /\ s \notin stuck
    /\ cm_channels' = [cm_channels EXCEPT ![s[1]] = Disconnected(@, s[2], s[3])]
    /\ listener' = [listener EXCEPT ![s[1]].stale =
           @ \/ (Iterating(s[1], s[2]) /\ cm_channels'[s[1]][s[2]] = <<>>)]
    /\ attached_since' = [f \in DOMAIN attached_since |-> attached_since[f] \ {s}]
    /\ UNCHANGED <<inbox, sockets, stuck, published, ws_used, ws_limits>>
    /\ UNCHANGED not_ws_vars

\* a client stops reading: sends to its socket never complete from now on
Stall(s) ==
    /\ Attached(s)
    /\ Cardinality(stuck) < ws_limits.stalls
    /\ stuck' = stuck \cup {s}
    /\ UNCHANGED <<cm_channels, inbox, listener, sockets, published,
                   attached_since, ws_used, ws_limits>>
    /\ UNCHANGED not_ws_vars

\* NativeTransport.deliver_to_channel: the bus hands the payload to the
\* subscription of every replica
Publish(channel_id) ==
    /\ Len(published) < ws_limits.frames
    /\ LET id == Len(published) + 1
           pmessage == [type |-> "pmessage", channel |-> topic(channel_id),
                        data |-> json_dumps(Frame(id, channel_id))]
       IN /\ inbox' = [r \in Replicas |-> Append(inbox[r], pmessage)]
          /\ attached_since' =
                 [attached_since EXCEPT ![id] = AttachedTo(channel_id)]
    /\ published' = Append(published, channel_id)
    /\ UNCHANGED <<cm_channels, listener, sockets, stuck, ws_used, ws_limits>>
    /\ UNCHANGED not_ws_vars

\* some other publisher writes a payload that is not JSON on the topic
PublishGarbage(channel_id) ==
    /\ ws_used.garbage < ws_limits.garbage
    /\ inbox' = [r \in Replicas |-> Append(inbox[r],
           [type |-> "pmessage", channel |-> topic(channel_id),
            data |-> Garbage])]
    /\ ws_used' = [ws_used EXCEPT !.garbage = @ + 1]
    /\ UNCHANGED <<cm_channels, listener, sockets, stuck, published,
                   attached_since, ws_limits>>
    /\ UNCHANGED not_ws_vars

\* the for statement of send_to_channel asks the dict iterator for its next
\* item: RuntimeError when the dict's size is not the one the loop began
\* with, else the next entry, else the loop ends and the dead are removed
StopIteration == 0
RuntimeError == 0 - 1
IterNext(r, l, cm) ==
    LET entries == cm[l.channel_id]
        later == {i \in Live(entries) : i > l.pos}
        nxt == CHOOSE i \in later : \A j \in later : i <= j
    IN IF l.stale \/ Cardinality(Live(entries)) # l.used THEN RuntimeError
       ELSE IF later = {} THEN StopIteration ELSE nxt

RECURSIVE Evicted(_, _, _)
Evicted(cm, channel_id, dead) ==
    IF dead = <<>> THEN cm
    ELSE Evicted(Disconnected(cm, channel_id, Head(dead)), channel_id, Tail(dead))

\* PubSubManager._listen: one pmessage read and handed to the handler, up
\* to the handler's first ws.send_json
ListenerRead(r) ==
    /\ listener[r].pc = "listen"
    /\ inbox[r] # <<>>
    /\ inbox' = [inbox EXCEPT ![r] = Tail(@)]
    /\ LET message == Head(inbox[r])
           channel_id == removeprefix(message.channel, CHANNEL_PREFIX)
           data == json_loads(message.data)
           entries == cm_channels[r][channel_id]
           first == CHOOSE i \in Live(entries) : \A j \in Live(entries) : i <= j
       IN listener' =
              IF data = None \/ Live(entries) = {} THEN listener
              ELSE [listener EXCEPT ![r] =
                       [pc |-> "send", channel_id |-> channel_id, data |-> data,
                        client_id |-> entries[first], pos |-> first,
                        used |-> Cardinality(Live(entries)), stale |-> FALSE,
                        dead |-> <<>>]]
    /\ UNCHANGED <<cm_channels, sockets, stuck, published, attached_since,
                   ws_used, ws_limits>>
    /\ UNCHANGED not_ws_vars

\* send_to_channel: the awaited ws.send_json returns (ok) or raises, and the
\* loop goes on to the next client, ends, or dies of the RuntimeError that
\* _listen logs as a handler error
SendDone(r, ok) ==
    /\ listener[r].pc = "send"
    /\ LET l == listener[r]
           s == <<r, l.channel_id, l.client_id>>
           dead == IF ok THEN l.dead ELSE Append(l.dead, l.client_id)
           step == IterNext(r, l, cm_channels[r])
       IN /\ s \notin stuck
          /\ ok \/ ws_used.send_faults < ws_limits.send_faults
          /\ ws_used' = IF ok THEN ws_used
                        ELSE [ws_used EXCEPT !.send_faults = @ + 1]
          /\ sockets' = IF ok THEN [sockets EXCEPT ![s] = Append(@, l.data.id)]
                        ELSE sockets
          /\ IF step = RuntimeError
             THEN /\ listener' = [listener EXCEPT ![r] = Listening]
                  /\ UNCHANGED <<cm_channels, attached_since>>
             ELSE IF step = StopIteration
             THEN /\ listener' = [listener EXCEPT ![r] = Listening]
                  /\ cm_channels' = [cm_channels EXCEPT ![r] =
                         Evicted(@, l.channel_id, dead)]
                  /\ attached_since' = [f \in DOMAIN attached_since |->
                         {q \in attached_since[f] :
                             ~(q[1] = r /\ q[2] = l.channel_id
                               /\ \E i \in DOMAIN dead : dead[i] = q[3])}]
             ELSE /\ listener' = [listener EXCEPT ![r] =
                         [l EXCEPT !.pos = step, !.dead = dead,
                                   !.client_id = cm_channels[r][l.channel_id][step]]]
                  /\ UNCHANGED <<cm_channels, attached_since>>
    /\ UNCHANGED <<inbox, stuck, published, ws_limits>>
    /\ UNCHANGED not_ws_vars

\* PubSubManager._listen: self._pubsub.listen() raises (the bus connection
\* broke); the outer except logs it and the task ends
ListenerReadError(r) ==
    /\ listener[r].pc = "listen"
    /\ ws_used.read_faults < ws_limits.read_faults
    /\ listener' = [listener EXCEPT ![r] = [Listening EXCEPT !.pc = "crashed"]]
    /\ ws_used' = [ws_used EXCEPT !.read_faults = @ + 1]
    /\ UNCHANGED <<cm_channels, inbox, sockets, stuck, published,
                   attached_since, ws_limits>>
    /\ UNCHANGED not_ws_vars

\* what clients and publishers do
SessionNext ==
    \/ \E s \in WsSessions : Connect(s)
    \/ \E s \in WsSessions : Disconnect(s)
    \/ \E c \in WsChannelIds : Publish(c)
\* what the listener of replica r does when its calls succeed
ListenerStep(r) == ListenerRead(r) \/ SendDone(r, TRUE)


----------------------------------------------------------------------------
(* Part 6: the delivery queue's jobs and their retries *)

MaxJobs == 2

\* the options of the two task decorators
dm_max_retries == 3
dm_default_retry_delay == 5
dm_retry_backoff_max == 60
eval_max_retries == 1
eval_default_retry_delay == 3
deliver_dm_to_agent ==
    [name |-> "deliver_dm_to_agent", max_retries |-> dm_max_retries,
     default_retry_delay |-> dm_default_retry_delay, retry_backoff |-> TRUE,
     retry_backoff_max |-> dm_retry_backoff_max, autoretry_for |-> {}]
evaluate_instant_reply ==
    [name |-> "evaluate_instant_reply", max_retries |-> eval_max_retries,
     default_retry_delay |-> eval_default_retry_delay]
Tasks == {deliver_dm_to_agent, evaluate_instant_reply}

IdleDsend == [pc |-> "idle", agent_id |-> NULL, content |-> None, sender_user_identifier |-> NULL, sender_agent_id |-> NULL, user_identifier |-> NULL, channel_id |-> 0, msg |-> None]
JobInit(max_jobs) ==
    /\ queue_jobs = <<>>
    /\ job_limit = max_jobs
    /\ dsend = IdleDsend
    /\ dm_persisted = {}
    /\ dm_sent = {}
NoJobs == JobInit(0)

\* task.delay(...): the job is queued and the caller goes on
QueuedJob(task, agent_id, message_id) ==
    [task |-> task, agent_id |-> agent_id, message_id |-> message_id,
     state |-> "queued", retries |-> 0, attempts |-> 0, countdowns |-> <<>>]
Delay(task, agent_id, message_id) ==
    /\ Len(queue_jobs) < job_limit
    /\ queue_jobs' = Append(queue_jobs, QueuedJob(task, agent_id, message_id))
    /\ UNCHANGED <<job_limit, dsend, dm_persisted, dm_sent>>
    /\ UNCHANGED not_job_vars

\* self.retry(exc=exc) with no countdown: the original exception once
\* request.retries has reached max_retries, else the job is queued again
\* after the task's default_retry_delay (retry_backoff and
\* retry_backoff_max act on autoretry_for alone, which no task sets)
retry_countdown(task) == task.default_retry_delay
retry(job) ==
    IF job.retries >= job.task.max_retries
    THEN [job EXCEPT !.state = "failed"]
    ELSE [job EXCEPT !.retries = @ + 1,
                     !.countdowns = Append(@, retry_countdown(job.task))]

\* a queue worker runs the job: the POST to the agent's worker succeeds
\* (ok) or raises an httpx error, which the task answers with self.retry
RunJob(j, ok) ==
    /\ j \in DOMAIN queue_jobs
    /\ queue_jobs[j].state = "queued"
    /\ LET ran == [queue_jobs[j] EXCEPT !.attempts = @ + 1]
       IN queue_jobs' = [queue_jobs EXCEPT ![j] =
              IF ok THEN [ran EXCEPT !.state = "done"] ELSE retry(ran)]
    /\ UNCHANGED <<job_limit, dsend, dm_persisted, dm_sent>>
    /\ UNCHANGED not_job_vars

\* send_direct_message, step 1 up to the select of get_or_create_dm_channel
\* (an existing channel, the first row in no defined order, is returned at
\* once); the user side of the channel is the sending human, else the
\* sending agent's id as text, else "system"
DmSendLookup(agent_id, content, sender_user_identifier, sender_agent_id) ==
    /\ dsend.pc = "idle"
    /\ Len(messages) < msg_limits.messages
    /\ LET user_identifier ==
               IF sender_user_identifier # NULL THEN sender_user_identifier
               ELSE IF sender_agent_id # NULL THEN sender_agent_id
               ELSE "system"
           found == DmChannelMatches(agent_id, user_identifier)
           call == [IdleDsend EXCEPT !.agent_id = agent_id,
                       !.content = content,
                       !.sender_user_identifier = sender_user_identifier,
                       !.sender_agent_id = sender_agent_id,
                       !.user_identifier = user_identifier]
       IN IF found # {}
          THEN \E c \in found :
                   dsend' = [call EXCEPT !.pc = "persist", !.channel_id = c]
          ELSE /\ Len(channels) < channel_limit
               /\ dsend' = [call EXCEPT !.pc = "create"]
    /\ UNCHANGED <<queue_jobs, job_limit, dm_persisted, dm_sent>>
    /\ UNCHANGED not_job_vars

\* POST /channels/dm/{agent_id}: the sender is the optional query
\* parameter sender_user_identifier; no sender agent is passed on
send_direct_message(agent_id, content, sender_user_identifier) ==
    DmSendLookup(agent_id, content, sender_user_identifier, NULL)

\* get_or_create_dm_channel after a select that found nothing
DmSendCreate ==
    /\ dsend.pc = "create"
    /\ channels' = CreatedChannels(channels, "DM", dsend.agent_id, "dm")
    /\ channel_members' =
           CreatedMembers(channel_members, NewChannelId(channels),
                          {dsend.agent_id}, dsend.user_identifier)
    /\ dsend' = [dsend EXCEPT !.pc = "persist",
                              !.channel_id = NewChannelId(channels)]
    /\ UNCHANGED <<dm_calls, dm_returned, channel_limit>>
    /\ UNCHANGED <<queue_jobs, job_limit, dm_persisted, dm_sent>>
    /\ UNCHANGED <<lifecycle_vars, msg_vars, page_vars, ws_vars, config_vars, ep_vars, live_vars, aux_vars>>

\* step 2: create_message with message_type dm
DmSendPersist ==
    /\ dsend.pc = "persist"
    /\ LET row == NewMessage(messages, dsend.channel_id, dsend.content, "dm",
                             dsend.sender_agent_id,
                             dsend.sender_user_identifier) IN
        /\ messages' = create_message(messages, row)
        /\ dsend' = [dsend EXCEPT !.pc = "publish", !.msg = row]
        /\ dm_persisted' = dm_persisted \cup
               {[id |-> row.id, agent_id |-> dsend.agent_id,
                 channel_id |-> dsend.channel_id]}
    /\ UNCHANGED <<clock, read_cursors, unread, send, returned, frames,
                   dm_jobs, eval_jobs, msg_limits>>
    /\ UNCHANGED <<queue_jobs, job_limit, dm_sent>>
    /\ UNCHANGED <<lifecycle_vars, dm_vars, page_vars, ws_vars, config_vars, ep_vars, live_vars, aux_vars>>

\* step 3: deliver_to_channel (redis publish); when it raises the call ends
DmSendPublish(ok) ==
    /\ dsend.pc = "publish"
    /\ frames' = IF ok THEN Append(frames, ws_msg(dsend.msg)) ELSE frames
    /\ dsend' = IF ok THEN [dsend EXCEPT !.pc = "deliver"] ELSE IdleDsend
    /\ UNCHANGED <<clock, messages, read_cursors, unread, send, returned,
                   dm_jobs, eval_jobs, msg_limits>>
    /\ UNCHANGED <<queue_jobs, job_limit, dm_persisted, dm_sent>>
    /\ UNCHANGED <<lifecycle_vars, dm_vars, page_vars, ws_vars, config_vars, ep_vars, live_vars, aux_vars>>

\* step 4: deliver_to_agent (deliver_dm_to_agent.delay); when the broker
\* call raises the call ends
DmSendDeliver(ok) ==
    /\ dsend.pc = "deliver"
    /\ Len(queue_jobs) < job_limit
    /\ dm_jobs' = IF ok THEN Enqueue(dm_jobs, {Job(dsend.agent_id, dsend.msg.id)})
                  ELSE dm_jobs
    /\ queue_jobs' =
           IF ok THEN Append(queue_jobs, QueuedJob(deliver_dm_to_agent,
                                                   dsend.agent_id, dsend.msg.id))
           ELSE queue_jobs
    /\ dsend' = IF ok THEN [dsend EXCEPT !.pc = "return"] ELSE IdleDsend
    /\ UNCHANGED <<clock, messages, read_cursors, unread, send, returned,
                   frames, eval_jobs, msg_limits>>
    /\ UNCHANGED <<job_limit, dm_persisted, dm_sent>>
    /\ UNCHANGED <<lifecycle_vars, dm_vars, page_vars, ws_vars, config_vars, ep_vars, live_vars, aux_vars>>

\* return msg
DmSendReturn ==
    /\ dsend.pc = "return"
    /\ dm_sent' = dm_sent \cup
           {[id |-> dsend.msg.id, agent_id |-> dsend.agent_id,
             channel_id |-> dsend.channel_id]}
    /\ dsend' = IdleDsend
    /\ UNCHANGED <<queue_jobs, job_limit, dm_persisted>>
    /\ UNCHANGED not_job_vars

\* the steps of a send_direct_message call after its first
DmSendSteps(oks) ==
    \/ DmSendCreate
    \/ DmSendPersist
    \/ \E ok \in oks : DmSendPublish(ok)
    \/ \E ok \in oks : DmSendDeliver(ok)
    \/ DmSendReturn


----------------------------------------------------------------------------
(* Part 7: the heartbeat period of an agent *)

\* Field(ge=..., le=...) of the three request schemas, and the default
create_ge == 10
create_le == 86400
update_ge == 10
update_le == 86400
self_ge == 300
self_le == 86400
create_default == 300
\* periods a request may carry, around every limit
HeartbeatInputs ==
    {0, 9, 10, 11, 299, 300, 301, 3600, 86399, 86400, 86401}
\* request bodies: with the field, or without it
WithHeartbeat(v) == [heartbeat_interval_seconds |-> v]
Bodies == {WithHeartbeat(v) : v \in HeartbeatInputs} \cup {<<>>}
HasHeartbeat(body) == "heartbeat_interval_seconds" \in DOMAIN body

ConfigInit ==
    /\ heartbeat_interval_seconds = <<>>
    /\ config_status = 0

\* pydantic's check of an int field against ge and le
FieldValid(v, ge, le) == v >= ge /\ v <= le

\* POST /agents: CreateAgentRequest, then AgentService.create_agent's
\* int(kwargs.get("heartbeat_interval_seconds", 300) or 300)
PostAgent(a, body) ==
    /\ a \notin DOMAIN heartbeat_interval_seconds
    /\ LET v == IF HasHeartbeat(body) THEN body.heartbeat_interval_seconds
                ELSE create_default
       IN IF FieldValid(v, create_ge, create_le)
          THEN /\ heartbeat_interval_seconds' =
                      Put(heartbeat_interval_seconds, a,
                          IF v = 0 THEN create_default ELSE v)
               /\ config_status' = 201
          ELSE /\ config_status' = 422
               /\ UNCHANGED heartbeat_interval_seconds
    /\ UNCHANGED not_config_vars

\* PATCH /agents/{id}: UpdateAgentRequest, then AgentService.update_agent
\* sets the fields that were given
PatchAgent(a, body) ==
    /\ a \in DOMAIN heartbeat_interval_seconds
    /\ IF ~HasHeartbeat(body)
       THEN config_status' = 200 /\ UNCHANGED heartbeat_interval_seconds
       ELSE IF FieldValid(body.heartbeat_interval_seconds, update_ge, update_le)
       THEN /\ heartbeat_interval_seconds' =
                   [heartbeat_interval_seconds EXCEPT
                       ![a] = body.heartbeat_interval_seconds]
            /\ config_status' = 200
       ELSE config_status' = 422 /\ UNCHANGED heartbeat_interval_seconds
    /\ UNCHANGED not_config_vars

\* PATCH /internal/agents/{id}/self: SelfUpdateRequest, then self_update
\* sets the fields that were given
self_update(a, body) ==
    /\ a \in DOMAIN heartbeat_interval_seconds
    /\ IF ~HasHeartbeat(body)
       THEN config_status' = 200 /\ UNCHANGED heartbeat_interval_seconds
       ELSE IF FieldValid(body.heartbeat_interval_seconds, self_ge, self_le)
       THEN /\ heartbeat_interval_seconds' =
                   [heartbeat_interval_seconds EXCEPT
                       ![a] = body.heartbeat_interval_seconds]
            /\ config_status' = 200
       ELSE config_status' = 422 /\ UNCHANGED heartbeat_interval_seconds
    /\ UNCHANGED not_config_vars


----------------------------------------------------------------------------
(* Part 8: the channel_websocket endpoint of one replica *)

\* JSON values a client may send: objects carry their members
JsonObject(members) == [kind |-> "object", members |-> members]
JsonArray == [kind |-> "array"]
JsonString == [kind |-> "string"]
JsonNull == [kind |-> "null"]
InboundFrames ==
    { JsonObject([content |-> <<"x">>]),
      JsonObject([type |-> "message", content |-> <<"x">>, message_type |-> "system"]),
      JsonObject([type |-> "ping", content |-> <<"x">>]),
      JsonObject([type |-> "message"]),
      JsonObject([content |-> <<>>]),
      JsonObject([content |-> <<"x">>, message_type |-> "dm"]),
      JsonArray, JsonString, JsonNull }

\* WebSocketSendPayload(**data) for a mapping: the three Field rules
PayloadValid(members) ==
    /\ "type" \in DOMAIN members => members.type = "message"
    /\ "content" \in DOMAIN members /\ Len(members.content) >= 1
    /\ "message_type" \in DOMAIN members =>
           members.message_type \in {"chat", "system"}
\* the validated payload, defaults filled in
WebSocketSendPayload(members) ==
    [type |-> "message", content |-> members.content,
     message_type |-> IF "message_type" \in DOMAIN members
                      THEN members.message_type ELSE "chat"]
\* frames the claim calls invalid
FailsValidation(data) ==
    data.kind # "object" \/ ~PayloadValid(data.members)

\* log: what the coroutine logged on leaving the receive loop
NewConnection == [pc |-> "new", channel_id |-> 0, client_id |-> NULL, log |-> NULL]
EndpointInit(connections, max_errors, send_faults) ==
    /\ ep = [k \in 1..connections |-> NewConnection]
    /\ registry = <<>>
    /\ ep_errors = [k \in 1..connections |-> 0]
    /\ ep_evicted = {}
    /\ ep_limits = [errors |-> max_errors, send_faults |-> send_faults]
NoEndpoint == EndpointInit(0, 0, 0)

\* self.channels[channel_id] of a defaultdict(dict), read without creating
Bucket(reg, channel_id) ==
    IF channel_id \in DOMAIN reg THEN reg[channel_id] ELSE <<>>
\* ConnectionManager.connect after accept: channels[channel_id][client_id] = ws
connect(reg, websocket, channel_id, client_id) ==
    Put(reg, channel_id, Put(Bucket(reg, channel_id), client_id, websocket))
\* ConnectionManager.disconnect: pop(client_id, None), del the empty dict
disconnect(reg, channel_id, client_id) ==
    LET popped == Pop(Bucket(reg, channel_id), client_id)
    IN IF DOMAIN popped = {} THEN Pop(reg, channel_id)
       ELSE Put(reg, channel_id, popped)

\* send_system_message: create_message with type system and no sender,
\* then deliver_to_channel; nothing else
SystemSent(channel_id, content) ==
    LET row == NewMessage(messages, channel_id, content, "system", NULL, NULL) IN
    /\ messages' = create_message(messages, row)
    /\ frames' = Append(frames, ws_msg(row))

\* channel_websocket, steps 1 and 2: close 4004 for an unknown channel,
\* else accept and register
EpOpen(k, channel_id, client_id) ==
    /\ k \in DOMAIN ep
    /\ ep[k].pc = "new"
    /\ IF channel_id \in DOMAIN channels
       THEN /\ registry' = connect(registry, k, channel_id, client_id)
            /\ ep' = [ep EXCEPT ![k] = [pc |-> "join", channel_id |-> channel_id,
                                        client_id |-> client_id, log |-> NULL]]
       ELSE /\ ep' = [ep EXCEPT ![k] = [pc |-> "closed", channel_id |-> channel_id,
                                        client_id |-> client_id, log |-> NULL]]
            /\ UNCHANGED registry
    /\ UNCHANGED <<ep_errors, ep_evicted, ep_limits>>
    /\ UNCHANGED <<msg_vars, not_ep_msg_vars>>

\* step 3: the join notification; its failure is logged and dropped
EpJoin(k, ok) ==
    /\ k \in DOMAIN ep
    /\ ep[k].pc = "join"
    /\ ep' = [ep EXCEPT ![k].pc = "receive"]
    /\ IF ok
       THEN /\ Len(messages) < msg_limits.messages
            /\ SystemSent(ep[k].channel_id, <<ep[k].client_id, " ", "j">>)
       ELSE UNCHANGED <<messages, frames>>
    /\ UNCHANGED <<clock, read_cursors, unread, send, returned, dm_jobs,
                   eval_jobs, msg_limits>>
    /\ UNCHANGED <<registry, ep_errors, ep_evicted, ep_limits>>
    /\ UNCHANGED not_ep_msg_vars

\* step 4, one turn of the receive loop for a frame the client sent: a
\* ValidationError is answered with an error frame; a valid payload goes
\* through send_channel_message (persist, publish, mentions, evaluation)
\* and update_read_cursor; any other exception (the TypeError of ** on a
\* value that is no mapping, a failing send when ok is false) leaves the
\* loop for the finally block, which unregisters the client
EpReceive(k, data, ok) ==
    /\ k \in DOMAIN ep
    /\ ep[k].pc = "receive"
    /\ LET channel_id == ep[k].channel_id
           client_id == ep[k].client_id
       IN IF data.kind # "object"
          THEN /\ ep' = [ep EXCEPT ![k].pc = "leave", ![k].log = "WebSocket error"]
               /\ registry' = disconnect(registry, channel_id, client_id)
               /\ UNCHANGED <<ep_errors, msg_vars>>
          ELSE IF ~PayloadValid(data.members)
          THEN /\ ep_errors[k] < ep_limits.errors
               /\ ep_errors' = [ep_errors EXCEPT ![k] = @ + 1]
               /\ UNCHANGED <<ep, registry, msg_vars>>
          ELSE IF ~ok
          THEN /\ ep' = [ep EXCEPT ![k].pc = "leave", ![k].log = "WebSocket error"]
               /\ registry' = disconnect(registry, channel_id, client_id)
               /\ UNCHANGED <<ep_errors, msg_vars>>
          ELSE LET payload == WebSocketSendPayload(data.members)
                   row == NewMessage(messages, channel_id, payload.content,
                                     payload.message_type, NULL, client_id)
                   targets == MentionTargets(channel_id, payload.content)
                   found == _get_read_cursor(channel_id, NULL, client_id)
               IN /\ Len(messages) < msg_limits.messages
                  /\ messages' = create_message(messages, row)
                  /\ frames' = Append(frames, ws_msg(row))
                  /\ dm_jobs' = Enqueue(dm_jobs, {Job(a, row.id) : a \in targets})
                  /\ eval_jobs' = Enqueue(eval_jobs,
                         {Job(a, row.id) :
                             a \in EvalTargets(get_channel_agent_ids(channel_id),
                                               targets)})
                  /\ IF found # {}
                     THEN \E cursor \in found :
                              read_cursors' = (read_cursors \ {cursor}) \cup
                                  {[cursor EXCEPT !.last_read_message_id = row.id,
                                                  !.last_read_at = clock]}
                     ELSE read_cursors' = read_cursors \cup
                              {CursorRow(channel_id, NULL, client_id, row.id, clock)}
                  /\ UNCHANGED <<clock, unread, send, returned, msg_limits>>
                  /\ UNCHANGED <<ep, registry, ep_errors>>
    /\ UNCHANGED <<ep_evicted, ep_limits>>
    /\ UNCHANGED not_ep_msg_vars

\* the client goes away: receive_json raises WebSocketDisconnect and the
\* finally block unregisters the client
EpClientGone(k) ==
    /\ k \in DOMAIN ep
    /\ ep[k].pc = "receive"
    /\ ep' = [ep EXCEPT ![k].pc = "leave",
                        ![k].log = "WebSocket disconnected"]
    /\ registry' = disconnect(registry, ep[k].channel_id, ep[k].client_id)
    /\ UNCHANGED <<ep_errors, ep_evicted, ep_limits>>
    /\ UNCHANGED <<msg_vars, not_ep_msg_vars>>

\* step 5: the leave notification; its failure is logged and dropped
EpLeave(k, ok) ==
    /\ k \in DOMAIN ep
    /\ ep[k].pc = "leave"
    /\ ep' = [ep EXCEPT ![k].pc = "closed"]
    /\ IF ok
       THEN /\ Len(messages) < msg_limits.messages
            /\ SystemSent(ep[k].channel_id, <<ep[k].client_id, " ", "l">>)
       ELSE UNCHANGED <<messages, frames>>
    /\ UNCHANGED <<clock, read_cursors, unread, send, returned, dm_jobs,
                   eval_jobs, msg_limits>>
    /\ UNCHANGED <<registry, ep_errors, ep_evicted, ep_limits>>
    /\ UNCHANGED not_ep_msg_vars

RECURSIVE DisconnectAll(_, _, _)
DisconnectAll(reg, channel_id, dead) ==
    IF dead = {} THEN reg
    ELSE LET c == CHOOSE c \in dead : TRUE
         IN DisconnectAll(disconnect(reg, channel_id, c), channel_id, dead \ {c})

\* send_to_channel run to its end with no registration in between: the
\* clients whose send raised are the dead, each removed by disconnect
EpBroadcast(channel_id, dead) ==
    /\ channel_id \in DOMAIN registry
    /\ dead # {}
    /\ dead \subseteq DOMAIN registry[channel_id]
    /\ Cardinality(ep_evicted) + Cardinality(dead) <= ep_limits.send_faults
    /\ registry' = DisconnectAll(registry, channel_id, dead)
    /\ ep_evicted' = ep_evicted \cup {registry[channel_id][c] : c \in dead}
    /\ UNCHANGED <<ep, ep_errors, ep_limits>>
    /\ UNCHANGED <<msg_vars, not_ep_msg_vars>>


----------------------------------------------------------------------------
(* Part 9: live-status enrichment *)

NoResponse == live = None

\* pod_status_by_name.get(pod_name) / get_pod_status(pod_name): the phase
\* of the pod of that name, Absent for None
PhaseOf(pod_name) ==
    IF \E a \in AgentIds : PodName(a) = pod_name /\ pods[a] # "Absent"
    THEN pods[CHOOSE a \in AgentIds : PodName(a) = pod_name]
    ELSE "Absent"
\* the two rules that overlay the phase on agent.status
Overlay(status, pod_phase) ==
    IF pod_phase = "Absent" /\ status = "running" THEN "error"
    ELSE IF pod_phase = "Failed" THEN "error"
    ELSE status
\* enrich_agents_with_pod_status for one agent of the list
enrich_agents_with_pod_status(row) ==
    IF row.status \in {"running", "error", "recovering"}
    THEN Overlay(row.status, PhaseOf(row.pod_name))
    ELSE row.status
\* get_agent_with_live_status for a row that was found
get_agent_with_live_status(row) ==
    IF row.pod_name # None /\ row.status \in {"running", "error", "recovering"}
    THEN Overlay(row.status, PhaseOf(row.pod_name))
    ELSE row.status

\* GET /agents: list_agents, then the enrichment; ok = list_agent_pods
\* returned.  The session is closed without a commit, so the statuses set
\* on the loaded objects never reach the table.
ListLive(ok) ==
    /\ live = None
    /\ live' = [call |-> "list", returned |-> ok,
                status |-> [a \in DOMAIN agents |->
                               IF ok THEN enrich_agents_with_pod_status(agents[a])
                               ELSE agents[a].status]]
    /\ UNCHANGED not_live_vars

\* GET /agents/{id}; ok = get_pod_status returned
GetLive(a, ok) ==
    /\ live = None
    /\ live' = [call |-> "get", returned |-> ok,
                status |-> [x \in DOMAIN agents \cap {a} |->
                               IF ok THEN get_agent_with_live_status(agents[a])
                               ELSE agents[a].status]]
    /\ UNCHANGED not_live_vars

\* the response has been sent
Respond ==
    /\ live # None
    /\ live' = None
    /\ UNCHANGED not_live_vars

----------------------------------------------------------------------------
(* Part 10: the memory sub-resource *)

\* A text is written as the sequence of its pieces ("" is the empty
\* sequence); a request carries one piece.
PatchIds == {"p1", "p2"}
MemoryTexts == {"x", "y"}
\* MemoryPatchRequest: append and content, each optional
MemoryPatchRequest(append, content) == [append |-> append, content |-> content]
PatchBodies ==
    {MemoryPatchRequest(t, NULL) : t \in MemoryTexts}
        \cup {MemoryPatchRequest(NULL, "z"), MemoryPatchRequest(NULL, NULL)}
NoPatch == [pc |-> "idle", body |-> MemoryPatchRequest(NULL, NULL), memory |-> <<>>]

MemoryInit(stored, requests) ==
    /\ memory = stored
    /\ patch = [k \in requests |-> NoPatch]
NoMemory == MemoryInit(<<>>, {})

\* agent.memory + "\n" + body.append if agent.memory else body.append
Appended(old, append) ==
    IF old # <<>> THEN old \o <<"\n">> \o <<append>> ELSE <<append>>

\* patch_memory up to its commit: db.get loads the row into the request's
\* session, the new text is computed from the loaded one; 422 when the body
\* has neither field
PatchLoad(k, body) ==
    /\ k \in DOMAIN patch
    /\ patch[k].pc = "idle"
    /\ patch' = [patch EXCEPT ![k] =
           IF body.content # NULL
           THEN [pc |-> "commit", body |-> body, memory |-> <<body.content>>]
           ELSE IF body.append # NULL
           THEN [pc |-> "commit", body |-> body,
                 memory |-> Appended(memory, body.append)]
           ELSE [pc |-> "rejected", body |-> body, memory |-> memory]]
    /\ UNCHANGED memory
    /\ UNCHANGED not_memory_vars

\* db.commit(): UPDATE agents SET memory = <the new text>; refresh; respond
PatchCommit(k) ==
    /\ k \in DOMAIN patch
    /\ patch[k].pc = "commit"
    /\ memory' = patch[k].memory
    /\ patch' = [patch EXCEPT ![k].pc = "done"]
    /\ UNCHANGED not_memory_vars

----------------------------------------------------------------------------
(* Part 11: the heartbeat timer of a worker *)

\* An optional field of a request body is the empty set or a singleton.
\* Tasks are numbered in the order asyncio.create_task made them; NoTask is
\* the None of HeartbeatTimer._task.
NoTask == 0
CallIds == {"c1", "c2", "c3"}
Intervals == {600}
Prompts == {"p1"}
ConfigUpdateRequest(period, prompt, enabled) == [interval |-> period, prompt |-> prompt, enabled |-> enabled]
ConfigBodies ==
    {ConfigUpdateRequest(i, p, e) :
        i \in {{}} \cup {{v} : v \in Intervals},
        p \in {{}} \cup {{v} : v \in Prompts},
        e \in {{}, {TRUE}, {FALSE}}}
NoCall == [op |-> "none", body |-> ConfigUpdateRequest({}, {}, {}), pc |-> "idle"]
\* a task running _loop: where it is, whether cancel() was called on it,
\* and the coroutines awaiting it in the order they began to
NewLoop == [pc |-> "sleep", cancelled |-> FALSE, waiters |-> <<>>]
\* HeartbeatTimer.__init__
HeartbeatTimer(period, prompt) == [running |-> FALSE, task |-> NoTask, interval |-> period, prompt |-> prompt, locked |-> FALSE]

\* the worker as one value, for the code that runs between two awaits
Worker == [hb |-> heartbeat, tasks |-> loop_tasks, config |-> worker_config, calls |-> calls]
Becomes(w) ==
    /\ heartbeat' = w.hb
    /\ loop_tasks' = w.tasks
    /\ worker_config' = w.config
    /\ calls' = w.calls
    /\ UNCHANGED not_worker_vars

\* HeartbeatTimer.start: idempotent on _running
HeartbeatStart(w) ==
    IF w.hb.running THEN w
    ELSE [w EXCEPT !.hb.running = TRUE, !.hb.task = Len(w.tasks) + 1,
                   !.tasks = Append(w.tasks, NewLoop)]

\* HeartbeatTimer.stop up to `await self._task`: the caller is suspended
\* when there is a task that has not finished
StopAwaits(w) == w.hb.task # NoTask /\ w.tasks[w.hb.task].pc # "done"
StopBegin(w) ==
    [w EXCEPT !.hb.running = FALSE,
              !.tasks = IF StopAwaits(w)
                        THEN [@ EXCEPT ![w.hb.task].cancelled = TRUE] ELSE @]
\* HeartbeatTimer.stop after the await: self._task = None
StopEnd(w) == [w EXCEPT !.hb.task = NoTask]

Returned(w, k) == [w EXCEPT !.calls[k].pc = "done"]
\* coroutine k awaits the task the timer holds
Awaits(w, k, at) ==
    [w EXCEPT !.calls[k].pc = at, !.tasks[w.hb.task].waiters = Append(@, k)]

\* config_update: the heartbeat_enabled toggle
Toggle(w, k) ==
    LET body == w.calls[k].body
        c == IF body.enabled = {} THEN w
             ELSE [w EXCEPT !.config.heartbeat_enabled = (body.enabled = {TRUE})]
    IN  IF body.enabled = {TRUE}
        THEN Returned(HeartbeatStart(c), k)
        ELSE IF body.enabled = {FALSE} /\ c.hb.running
        THEN IF StopAwaits(c)
             THEN Awaits(StopBegin(c), k, "toggle_stop")
             ELSE Returned(StopEnd(StopBegin(c)), k)
        ELSE Returned(c, k)

\* HeartbeatTimer.restart after its stop(): start(), then the caller goes on
Restarted(w, k) ==
    LET s == HeartbeatStart(w)
    IN  IF w.calls[k].op = "config_update" THEN Toggle(s, k) ELSE Returned(s, k)

\* HeartbeatTimer.restart: the new interval and prompt, then stop()
Restart(w, k) ==
    LET body == w.calls[k].body
        n == [w EXCEPT !.hb.interval = IF body.interval = {} THEN @
                                        ELSE CHOOSE v \in body.interval : TRUE,
                       !.hb.prompt = IF body.prompt = {} THEN @
                                      ELSE CHOOSE v \in body.prompt : TRUE]
    IN  IF StopAwaits(n)
        THEN Awaits(StopBegin(n), k, "restart_stop")
        ELSE Restarted(StopEnd(StopBegin(n)), k)

\* coroutine k goes on after `await self._task`
Resumed(w, k) ==
    IF w.calls[k].pc = "restart_stop"
    THEN Restarted(StopEnd(w), k) ELSE Returned(StopEnd(w), k)

\* the done callbacks of a task run one after the other, in the order the
\* coroutines began to await it
RECURSIVE WakeAll(_, _)
WakeAll(w, ks) == IF ks = <<>> THEN w ELSE WakeAll(Resumed(w, Head(ks)), Tail(ks))

\* the config dict after a change of interval or prompt
Configured(config, body) ==
    [config EXCEPT
        !.heartbeat_interval_seconds =
            IF body.interval = {} THEN @ ELSE CHOOSE v \in body.interval : TRUE,
        !.heartbeat_prompt =
            IF body.prompt = {} THEN @ ELSE CHOOSE v \in body.prompt : TRUE]

\* POST /config-update on a booted worker, up to its first await that
\* suspends
config_update(k, body) ==
    /\ k \in DOMAIN calls
    /\ calls[k].pc = "idle"
    /\ LET w == [Worker EXCEPT
                    !.calls[k] = [op |-> "config_update", body |-> body, pc |-> "run"],
                    !.config = Configured(@, body)]
       IN  Becomes(IF body.interval # {} \/ body.prompt # {}
                   THEN Restart(w, k) ELSE Toggle(w, k))

\* SelfTools.update_heartbeat_prompt after its PATCH /self succeeded: the
\* config dict, then create_task(restart(prompt=prompt))
update_heartbeat_prompt(k, prompt) ==
    /\ k \in DOMAIN calls
    /\ calls[k].pc = "idle"
    /\ LET body == ConfigUpdateRequest({}, {prompt}, {})
       IN  Becomes([Worker EXCEPT
               !.calls[k] = [op |-> "restart", body |-> body, pc |-> "ready"],
               !.config = Configured(@, body)])

\* SelfTools.update_heartbeat_interval, the same way
update_heartbeat_interval(k, interval_seconds) ==
    /\ k \in DOMAIN calls
    /\ calls[k].pc = "idle"
    /\ LET body == ConfigUpdateRequest({interval_seconds}, {}, {})
       IN  Becomes([Worker EXCEPT
               !.calls[k] = [op |-> "restart", body |-> body, pc |-> "ready"],
               !.config = Configured(@, body)])

\* the task a self-update tool created runs restart() to its await
RestartTask(k) ==
    /\ k \in DOMAIN calls
    /\ calls[k].pc = "ready"
    /\ Becomes(Restart(Worker, k))

\* _loop: asyncio.sleep is over; break when not running, skip the tick when
\* the lock is held, else take the lock and send the prompt
LoopWake(t) ==
    /\ t \in DOMAIN loop_tasks
    /\ loop_tasks[t].pc = "sleep" /\ ~loop_tasks[t].cancelled
    /\ IF ~heartbeat.running
       THEN Becomes([Worker EXCEPT !.tasks[t].pc = "done"])
       ELSE ~heartbeat.locked
            /\ Becomes([Worker EXCEPT !.tasks[t].pc = "processing", !.hb.locked = TRUE])

\* _loop: process_message returned or raised; the lock is released and the
\* while condition is read
LoopProcessed(t) ==
    /\ t \in DOMAIN loop_tasks
    /\ loop_tasks[t].pc = "processing" /\ ~loop_tasks[t].cancelled
    /\ Becomes([Worker EXCEPT !.hb.locked = FALSE,
                              !.tasks[t].pc = IF heartbeat.running THEN "sleep" ELSE "done"])

\* CancelledError is raised in the task at its await; it is not an
\* Exception, so the task ends, releasing the lock it holds
LoopCancelled(t) ==
    /\ t \in DOMAIN loop_tasks
    /\ loop_tasks[t].pc # "done" /\ loop_tasks[t].cancelled
    /\ Becomes([Worker EXCEPT
           !.hb.locked = IF loop_tasks[t].pc = "processing" THEN FALSE ELSE @,
           !.tasks[t].pc = "done"])

\* the coroutines awaiting a finished task go on
Wakeups(t) ==
    /\ t \in DOMAIN loop_tasks
    /\ loop_tasks[t].pc = "done" /\ loop_tasks[t].waiters # <<>>
    /\ Becomes(WakeAll([Worker EXCEPT !.tasks[t].waiters = <<>>], loop_tasks[t].waiters))

\* lifespan: the timer is made from the config and started when
\* heartbeat_enabled
WorkerInit(enabled, ids) ==
    LET config == [heartbeat_interval_seconds |-> 300, heartbeat_prompt |-> "p0",
                   heartbeat_enabled |-> enabled]
        made == [hb |-> HeartbeatTimer(300, "p0"), tasks |-> <<>>, config |-> config,
                 calls |-> [k \in ids |-> NoCall]]
        w == IF enabled THEN HeartbeatStart(made) ELSE made
    IN  /\ heartbeat = w.hb
        /\ loop_tasks = w.tasks
        /\ worker_config = w.config
        /\ calls = w.calls
NoWorker == WorkerInit(FALSE, {})

\* one orchestrator replica
NoStandby == standby = None
NoAux == NoStandby /\ NoMemory /\ NoWorker

NoExt == NoPaging /\ NoWs /\ NoJobs /\ ConfigInit /\ NoEndpoint /\ NoResponse /\ NoAux

----------------------------------------------------------------------------
(* Specifications *)

Init ==
    LifecycleInit({"a1"}, MaxFaults, MaxPodFaults) /\ NoChannels /\ NoMessages
    /\ NoExt
Next == LifecycleNext
Spec == Init /\ [][Next]_vars

\* A fleet of two agents under the reconciler: agents are created, their pods
\* start, fail and vanish, and runtime calls of the reconciler may fail.
FleetFaults == 1
FleetPodFaults == 2
InitFleet ==
    LifecycleInit(AgentIds, FleetFaults, FleetPodFaults) /\ NoChannels /\ NoMessages
    /\ NoExt
NextFleet ==
    \/ \E a \in AgentIds, configured, ok, committed \in BOOLEAN :
           CreateAgent(a, configured, ok, committed)
    \/ RuntimeNext
    \/ ReconcilerNext
SpecFleet == InitFleet /\ [][NextFleet]_vars

\* One agent whose recovery keeps failing: enough failing calls for the
\* failure count to pass the immediate retries and reach the backoff cap.
BackoffFaults == 11
BackoffPodFaults == 1
InitBackoff ==
    LifecycleInit({"a1"}, BackoffFaults, BackoffPodFaults) /\ NoChannels /\ NoMessages
    /\ NoExt
NextBackoff ==
    \/ \E a \in AgentIds, configured, ok, committed \in BOOLEAN :
           CreateAgent(a, configured, ok, committed)
    \/ RuntimeNext
    \/ TimePasses
    \/ ReconcilerNext
SpecBackoff == InitBackoff /\ [][NextBackoff]_vars

\* One agent under the reconciler, and the orchestrator shutting down at any
\* moment of a tick.
ShutdownFaults == 1
ShutdownPodFaults == 1
InitShutdown ==
    LifecycleInit({"a1"}, ShutdownFaults, ShutdownPodFaults) /\ NoChannels /\ NoMessages
    /\ NoExt
NextShutdown == LifecycleNext \/ stop
SpecShutdown == InitShutdown /\ [][NextShutdown]_vars

\* One agent whose worker may fail once, and two orchestrator replicas, each
\* with its reconciler; every runtime and database call is answered.
ReplicaFaults == 0
ReplicaPodFaults == 1
InitReplicas ==
    /\ LifecycleInit({"a1"}, ReplicaFaults, ReplicaPodFaults) /\ NoChannels /\ NoMessages
    /\ NoPaging /\ NoWs /\ NoJobs /\ ConfigInit /\ NoEndpoint /\ live = None
    /\ standby = StartedReconciler /\ NoMemory /\ NoWorker
NextReplicas ==
    \/ \E a \in AgentIds, configured, ok, committed \in BOOLEAN :
           CreateAgent(a, configured, ok, committed)
    \/ \E a \in AgentIds : PodBreaks(a, "Failed")
    \/ ReconcilerNext
    \/ SwitchReplica
SpecReplicas == InitReplicas /\ [][NextReplicas]_vars

\* Two PATCH /agents/{id}/memory requests for one agent.
InitMemory ==
    /\ LifecycleInit({}, 0, 0) /\ NoChannels /\ NoMessages
    /\ NoPaging /\ NoWs /\ NoJobs /\ ConfigInit /\ NoEndpoint /\ live = None
    /\ NoStandby /\ NoWorker
    /\ \E stored \in {<<>>, <<"m">>} : MemoryInit(stored, PatchIds)
NextMemory ==
    \/ \E k \in PatchIds, body \in PatchBodies : PatchLoad(k, body)
    \/ \E k \in PatchIds : PatchCommit(k)
SpecMemory == InitMemory /\ [][NextMemory]_vars

\* One booted worker; config pushes and the worker's self-update tools, in
\* any interleaving its event loop allows.
InitHeartbeat ==
    /\ LifecycleInit({}, 0, 0) /\ NoChannels /\ NoMessages
    /\ NoPaging /\ NoWs /\ NoJobs /\ ConfigInit /\ NoEndpoint /\ live = None
    /\ NoStandby /\ NoMemory
    /\ \E enabled \in BOOLEAN : WorkerInit(enabled, CallIds)
NextHeartbeat ==
    \/ \E k \in CallIds, body \in ConfigBodies : config_update(k, body)
    \/ \E k \in CallIds, prompt \in Prompts : update_heartbeat_prompt(k, prompt)
    \/ \E k \in CallIds, period \in Intervals : update_heartbeat_interval(k, period)
    \/ \E k \in CallIds : RestartTask(k)
    \/ \E t \in DOMAIN loop_tasks : LoopWake(t)
    \/ \E t \in DOMAIN loop_tasks : LoopProcessed(t)
    \/ \E t \in DOMAIN loop_tasks : LoopCancelled(t)
    \/ \E t \in DOMAIN loop_tasks : Wakeups(t)
SpecHeartbeat == InitHeartbeat /\ [][NextHeartbeat]_vars

\* One booted worker; config pushes one after the other, each handled to
\* its response before the next arrives.
Quiescent == \A k \in DOMAIN calls : calls[k].pc \in {"idle", "done"}
NextPushes ==
    \/ \E k \in CallIds, body \in ConfigBodies : Quiescent /\ config_update(k, body)
    \/ \E t \in DOMAIN loop_tasks : LoopWake(t)
    \/ \E t \in DOMAIN loop_tasks : LoopProcessed(t)
    \/ \E t \in DOMAIN loop_tasks : LoopCancelled(t)
    \/ \E t \in DOMAIN loop_tasks : Wakeups(t)
SpecPushes == InitHeartbeat /\ [][NextPushes]_vars

\* One agent, no failing runtime or database call, one pod fault.  The
\* reconciler loop never stops (while True), and a delete request that has
\* started runs to its end.
FairPodFaults == 1
InitFair ==
    LifecycleInit({"a1"}, 0, FairPodFaults) /\ NoChannels /\ NoMessages
    /\ NoExt
DeleteProceeds == \E a \in AgentIds : DeleteTerminate(a, TRUE) \/ DeleteRow(a)
SpecFair ==
    /\ InitFair
    /\ [][Next]_vars
    /\ WF_vars(ReconcilerNext)
    /\ WF_vars(DeleteProceeds)

\* One agent, one failing runtime or database call and one pod fault, under
\* a reconciler that keeps ticking; once the failing call is spent the
\* runtime accepts every launch.
HealFaults == 1
HealPodFaults == 1
InitHeal ==
    LifecycleInit({"a1"}, HealFaults, HealPodFaults) /\ NoChannels /\ NoMessages
    /\ NoExt
SpecHeal ==
    /\ InitHeal
    /\ [][Next]_vars
    /\ WF_vars(ReconcilerNext)
    /\ WF_vars(DeleteProceeds)

\* Channels and concurrent DM lookups: no agents, no pods.
InitDM ==
    LifecycleInit({}, 0, 0) /\ ChannelInit(<<>>, {}, MaxChannels) /\ NoMessages
    /\ NoExt
NextDM ==
    \/ DmNext(AgentIds, {"h1"})
    \/ MemberNext(AgentIds, {"h1"})
    \/ \E a \in AgentIds : create_channel("room", "shared", "h1", {a})
SpecDM == InitDM /\ [][NextDM]_vars

\* One shared channel, messages stored in it over time, and two readers (an
\* agent and a human) marking messages read and asking for their unread ones.
CursorMessages == 5
CursorClock == 2
Room == <<ChannelRow(1, "room", NULL, "shared")>>
InitCursor ==
    /\ LifecycleInit({}, 0, 0)
    /\ ChannelInit(Room, {}, 1)
    /\ MsgInit(CursorMessages, CursorClock)
    /\ NoExt
NextCursor ==
    \/ Tick
    \/ PostMessage(1, <<"x">>, NULL, "h1")
    \/ \E m \in 1..CursorMessages : update_read_cursor(1, m, "a1", NULL)
    \/ \E m \in 1..CursorMessages : update_read_cursor(1, m, NULL, "h1")
    \/ GetUnread(1, "a1", NULL)
    \/ GetUnread(1, NULL, "h1")
SpecCursor == InitCursor /\ [][NextCursor]_vars

\* The room of SpecSend with system messages sent as well.
RouteMessages == 2
RouteContents == {<<"x">>, <<"@", "a", "l">>, <<"x", "@", "c", "-", "d">>}
InitRoute ==
    /\ LifecycleInit({}, 0, 0)
    /\ ChannelInit(Room, {MemberRow(1, NULL, "h1")}, 1)
    /\ MsgInit(RouteMessages, 0)
    /\ NoExt
NextRoute ==
    \/ send.pc = "idle" /\ \E a \in AgentIds : add_member(1, a, NULL)
    \/ send.pc = "idle" /\ \E a \in AgentIds : remove_member(1, a, NULL)
    \/ \E content \in RouteContents : SendPersist(1, content, "h1", NULL)
    \/ \E content \in RouteContents : SendPersist(1, content, NULL, "a1")
    \/ \E ok \in BOOLEAN : SendPublish(ok)
    \/ \E ok \in BOOLEAN : SendMentions(ok)
    \/ \E ok \in BOOLEAN : SendEvaluate(ok)
    \/ SendReturn
    \/ \E content \in RouteContents : SystemPersist(1, content)
    \/ \E ok \in BOOLEAN : SystemPublish(ok)
SpecRoute == InitRoute /\ [][NextRoute]_vars

\* Mark-read requests naming an agent, a human, both or neither.
MarkMessages == 2
MarkClock == 2
InitMark ==
    /\ LifecycleInit({}, 0, 0)
    /\ ChannelInit(Room, {}, 1)
    /\ MsgInit(MarkMessages, MarkClock)
    /\ NoExt
NextMark ==
    \/ Tick
    \/ PostMessage(1, <<"x">>, NULL, "h1")
    \/ \E id \in 1..MarkMessages, a \in {NULL, "a1"}, u \in {NULL, "h1"} :
           mark_messages_read(1, id, a, u)
SpecMark == InitMark /\ [][NextMark]_vars

\* One shared channel whose agent members change between sends, and
\* send_channel_message calls by a human or by an agent.
SendMessages == 2
Contents ==
    { <<"x">>,
      <<"@", "a", "l">>,
      <<"@", "a", "l", "-", "b", " ", "@", "A", "L", "_", "B">>,
      <<"@", "c", "_", "d", ",", "@", "A", "l", "-", "b">>,
      <<"x", "@", "c", "-", "d">> }
InitSend ==
    /\ LifecycleInit({}, 0, 0)
    /\ ChannelInit(Room, {MemberRow(1, NULL, "h1")}, 1)
    /\ MsgInit(SendMessages, 0)
    /\ NoExt
NextSend ==
    \/ send.pc = "idle" /\ \E a \in AgentIds : add_member(1, a, NULL)
    \/ send.pc = "idle" /\ \E a \in AgentIds : remove_member(1, a, NULL)
    \/ \E content \in Contents : SendPersist(1, content, "h1", NULL)
    \/ \E content \in Contents : SendPersist(1, content, NULL, "a1")
    \/ \E ok \in BOOLEAN : SendPublish(ok)
    \/ \E ok \in BOOLEAN : SendMentions(ok)
    \/ \E ok \in BOOLEAN : SendEvaluate(ok)
    \/ SendReturn
SpecSend == InitSend /\ [][NextSend]_vars

\* One channel whose messages are stored over time (several may share a
\* creation instant) and then a client that reads its history page by page
\* while nothing is written.
InitHistory ==
    /\ LifecycleInit({}, 0, 0)
    /\ ChannelInit(Room, {}, 1)
    /\ MsgInit(HistoryMessages, HistoryClock)
    /\ NoExt
NextHistory ==
    \/ walk.pc = "idle" /\ Tick
    \/ walk.pc = "idle" /\ PostMessage(1, <<"x">>, NULL, "h1")
    \/ \E page_size \in 1..MaxPageSize : HistoryFirst(1, page_size)
    \/ HistoryNext(1)
SpecHistory == InitHistory /\ [][NextHistory]_vars

\* Any agents table of the bounded shape and a client that lists it page by
\* page, ascending or descending, while nothing is written.
InitList ==
    /\ LifecycleInit({}, 0, 0) /\ NoChannels /\ NoMessages
    /\ \E rows \in AgentTables : PageInit(rows)
    /\ NoWs /\ NoJobs /\ ConfigInit /\ NoEndpoint /\ NoResponse /\ NoAux
NextList ==
    \/ \E page_size \in 1..MaxPageSize, sort_desc \in BOOLEAN :
           ListFirst(page_size, sort_desc)
    \/ ListNext
SpecList == InitList /\ [][NextList]_vars

\* Agents with names, listed by name page by page.
InitNames ==
    /\ LifecycleInit({}, 0, 0) /\ NoChannels /\ NoMessages
    /\ \E rows \in NamedTables : PageInit(rows)
    /\ NoWs /\ NoJobs /\ ConfigInit /\ NoEndpoint /\ NoResponse /\ NoAux
NextNames ==
    \/ \E page_size \in 1..MaxPageSize, sort_desc \in BOOLEAN :
           NameFirst(page_size, sort_desc)
    \/ NameNext
SpecNames == InitNames /\ [][NextNames]_vars

\* Two replicas, sessions that come and go, frames published on two
\* channels; every call succeeds and every send completes.
InitWsFair ==
    /\ LifecycleInit({}, 0, 0) /\ NoChannels /\ NoMessages /\ NoPaging
    /\ WsInit(MaxConnects, MaxFrames, 0, 0, 0, 0) /\ NoJobs /\ ConfigInit /\ NoEndpoint /\ NoResponse /\ NoAux
NextWsFair ==
    \/ SessionNext
    \/ \E r \in Replicas : ListenerStep(r)
WsFairness ==
    /\ WF_vars(ListenerStep("r1"))
    /\ WF_vars(ListenerStep("r2"))
SpecWsFair == InitWsFair /\ [][NextWsFair]_vars /\ WsFairness

\* Two replicas whose sessions attach between broadcasts and stay; one
\* client may stop reading; every other call succeeds.
SlowClients == 1
InitWsSlow ==
    /\ LifecycleInit({}, 0, 0) /\ NoChannels /\ NoMessages /\ NoPaging
    /\ WsInit(MaxConnects, MaxFrames, 0, 0, 0, SlowClients) /\ NoJobs /\ ConfigInit /\ NoEndpoint /\ NoResponse /\ NoAux
NextWsSlow ==
    \/ \E s \in WsSessions : listener[s[1]].pc = "listen" /\ Connect(s)
    \/ \E s \in WsSessions : Stall(s)
    \/ \E c \in WsChannelIds : Publish(c)
    \/ \E r \in Replicas : ListenerStep(r)
SpecWsSlow == InitWsSlow /\ [][NextWsSlow]_vars /\ WsFairness

\* Two replicas with failing sends, payloads that are not JSON and a bus
\* connection that may break.
WsFaultConnects == 2
WsFaults == 1
InitWs ==
    /\ LifecycleInit({}, 0, 0) /\ NoChannels /\ NoMessages /\ NoPaging
    /\ WsInit(WsFaultConnects, MaxFrames, WsFaults, WsFaults, WsFaults, 0) /\ NoJobs /\ ConfigInit /\ NoEndpoint /\ NoResponse /\ NoAux
NextWs ==
    \/ SessionNext
    \/ \E c \in WsChannelIds : PublishGarbage(c)
    \/ \E r \in Replicas : ListenerRead(r)
    \/ \E r \in Replicas, ok \in BOOLEAN : SendDone(r, ok)
    \/ \E r \in Replicas : ListenerReadError(r)
SpecWs == InitWs /\ [][NextWs]_vars

\* Jobs of both tasks handed to the queue and run by its workers, whose
\* calls to the agent's worker succeed or fail.
InitJobs ==
    /\ LifecycleInit({}, 0, 0) /\ NoChannels /\ NoMessages /\ NoPaging /\ NoWs
    /\ JobInit(MaxJobs) /\ ConfigInit /\ NoEndpoint /\ NoResponse /\ NoAux
NextJobs ==
    \/ \E task \in Tasks, a \in AgentIds, id \in 1..MaxJobs : Delay(task, a, id)
    \/ \E j \in 1..MaxJobs, ok \in BOOLEAN : RunJob(j, ok)
SpecJobs == InitJobs /\ [][NextJobs]_vars

\* A human's direct messages to agent a1, whose worker answers no job, and
\* a1 marking messages read.
DirectMessages == 2
DirectClock == 1
InitDirect ==
    /\ LifecycleInit({}, 0, 0)
    /\ ChannelInit(<<>>, {}, 1)
    /\ MsgInit(DirectMessages, DirectClock)
    /\ NoPaging /\ NoWs
    /\ JobInit(DirectMessages) /\ ConfigInit /\ NoEndpoint /\ NoResponse /\ NoAux
NextDirect ==
    \/ Tick
    \/ DmSendLookup("a1", <<"x">>, "h1", NULL)
    \/ DmSendSteps({TRUE})
    \/ \E j \in 1..DirectMessages : RunJob(j, FALSE)
    \/ \E id \in 1..DirectMessages : update_read_cursor(1, id, "a1", NULL)
SpecDirect == InitDirect /\ [][NextDirect]_vars

\* Messages sent to a room and directly to agent a1 with every combination
\* of senders.
SenderMessages == 2
InitSenders ==
    /\ LifecycleInit({}, 0, 0)
    /\ ChannelInit(Room, {MemberRow(1, NULL, "h1"), MemberRow(1, "a1", NULL)}, 2)
    /\ MsgInit(SenderMessages, 0)
    /\ NoPaging /\ NoWs
    /\ JobInit(SenderMessages) /\ ConfigInit /\ NoEndpoint /\ NoResponse /\ NoAux
NextSenders ==
    \/ \E message_type \in MessageTypes, a \in {NULL, "a1"}, u \in {NULL, "h1"} :
           send_channel_message(1, <<"x">>, message_type, a, u)
    \/ \E ok \in BOOLEAN : SendPublish(ok)
    \/ \E ok \in BOOLEAN : SendMentions(ok)
    \/ \E ok \in BOOLEAN : SendEvaluate(ok)
    \/ SendReturn
    \/ \E u \in {NULL, "h1"} : send_direct_message("a1", <<"x">>, u)
    \/ DmSendSteps(BOOLEAN)
SpecSenders == InitSenders /\ [][NextSenders]_vars

\* Clients opening sessions on the room (or on a channel that does not
\* exist), sending frames of every kind, and going away.
MaxConnections == 2
MaxErrorFrames == 2
EndpointMessages == 3
EndpointFaults == 1
EndpointClients == {"u1", "u2"}
InitEndpoint ==
    /\ LifecycleInit({}, 0, 0)
    /\ ChannelInit(Room, {MemberRow(1, NULL, "u1")}, 1)
    /\ MsgInit(EndpointMessages, 0)
    /\ NoPaging /\ NoWs /\ NoJobs /\ ConfigInit
    /\ EndpointInit(MaxConnections, MaxErrorFrames, EndpointFaults) /\ NoResponse /\ NoAux
NextEndpoint ==
    \/ \E k \in 1..MaxConnections, channel_id \in {1, 2}, client_id \in EndpointClients :
           EpOpen(k, channel_id, client_id)
    \/ \E k \in 1..MaxConnections, ok \in BOOLEAN : EpJoin(k, ok)
    \/ \E k \in 1..MaxConnections, data \in InboundFrames, ok \in BOOLEAN :
           EpReceive(k, data, ok)
    \/ \E k \in 1..MaxConnections : EpClientGone(k)
    \/ \E k \in 1..MaxConnections, ok \in BOOLEAN : EpLeave(k, ok)
    \/ \E dead \in SUBSET EndpointClients : EpBroadcast(1, dead)
SpecEndpoint == InitEndpoint /\ [][NextEndpoint]_vars

\* One agent through its lifecycle while operators list and get agents.
LiveFaults == 1
LivePodFaults == 1
InitLive ==
    LifecycleInit({"a1"}, LiveFaults, LivePodFaults) /\ NoChannels /\ NoMessages
    /\ NoExt
NextLive ==
    \/ LifecycleNext
    \/ \E ok \in BOOLEAN : ListLive(ok)
    \/ \E a \in AgentIds, ok \in BOOLEAN : GetLive(a, ok)
    \/ Respond
SpecLive == InitLive /\ [][NextLive]_vars

\* Agents created and their heartbeat period changed by operators and by
\* the agents themselves.
InitConfig ==
    /\ LifecycleInit({}, 0, 0) /\ NoChannels /\ NoMessages
    /\ NoPaging /\ NoWs /\ NoJobs /\ ConfigInit /\ NoEndpoint /\ NoResponse /\ NoAux
NextConfig ==
    \/ \E a \in AgentIds, body \in Bodies : PostAgent(a, body)
    \/ \E a \in AgentIds, body \in Bodies : PatchAgent(a, body)
    \/ \E a \in AgentIds, body \in Bodies : self_update(a, body)
SpecConfig == InitConfig /\ [][NextConfig]_vars

----------------------------------------------------------------------------
(* Properties of the agent lifecycle *)

\* C1: after delete(agent) has returned, the runtime holds no worker of that
\* agent, also when the terminate call of the delete failed.
C1_DeleteLeavesNoWorker ==
    \A a \in deleted : pods[a] = "Absent"

\* C6: every agent row whose status is running has a non-null pod_name.
C6_RunningHasHandle ==
    \A a \in DOMAIN agents :
        agents[a].status = "running" => agents[a].pod_name # None

\* C7: terminating is a one-way sink: a row whose status is terminating keeps
\* that status until the row is deleted.
C7_TerminatingIsSink ==
    [][\A a \in DOMAIN agents :
          agents[a].status = "terminating"
              => (a \notin DOMAIN agents' \/ agents'[a].status = "terminating")]_vars

\* C8: an agent that is running with no worker in the runtime when a tick
\* reads the agents is no longer running when that tick ends, provided the
\* tick's database calls succeeded (tick_missing holds those agents).
C8_MissingWorkerMarkedError ==
    (rec_pc = "sleep" /\ ~tick_db_failed)
        => \A a \in tick_missing :
              a \in DOMAIN agents => agents[a].status # "running"

\* C9: a running agent whose worker has failed is set to error with its pod
\* deleted, then to recovering, then to running with a live worker named
\* agent-<id> (unless the agent is being deleted meanwhile); and its status
\* leaves running only for error, and leaves error, when no recovery is in
\* flight, only for recovering (or terminating on a delete).
BeingDeleted(a) == a \notin DOMAIN agents \/ del_pc[a] # "idle"
FailedWhileRunning(a) ==
    ~BeingDeleted(a) /\ agents[a].status = "running" /\ pods[a] = "Failed"
MarkedError(a) ==
    ~BeingDeleted(a) /\ agents[a].status = "error" /\ pods[a] = "Absent"
Recovering(a) == ~BeingDeleted(a) /\ agents[a].status = "recovering"
Recovered(a) ==
    /\ ~BeingDeleted(a)
    /\ agents[a].status = "running"
    /\ agents[a].pod_name = PodName(a)
    /\ pods[a] \in {"Pending", "Running"}
StatusChangesTo(a, S) ==
    (a \in DOMAIN agents' /\ agents'[a].status # agents[a].status)
        => agents'[a].status \in S

C9_FailedWorkerRecovered ==
    /\ FailedWhileRunning("a1") ~> (BeingDeleted("a1") \/ MarkedError("a1"))
    /\ MarkedError("a1") ~> (BeingDeleted("a1") \/ Recovering("a1"))
    /\ Recovering("a1") ~> (BeingDeleted("a1") \/ Recovered("a1"))
    /\ [][/\ FailedWhileRunning("a1")
                => StatusChangesTo("a1", {"error", "terminating"})
          /\ (MarkedError("a1") /\ rec_pc \notin {"launch", "commit"})
                => StatusChangesTo("a1", {"recovering", "terminating"})]_vars

C9_Witness ==
    /\ pod_faults = <<"Failed">>
    /\ Recovered("a1")
    /\ rec_pc = "loop"
    /\ rec_agents[1].status \in {"error", "recovering"}

----------------------------------------------------------------------------
(* Properties of read cursors *)

\* C2: a reader's cursor in a channel never moves to a message created
\* before the one it points at.
C2_CursorNeverRegresses ==
    [][\A c \in read_cursors, d \in read_cursors' :
          (/\ c.channel_id = d.channel_id
           /\ c.agent_id = d.agent_id
           /\ c.user_identifier = d.user_identifier)
              => d.last_read_message_id >= c.last_read_message_id]_vars

\* the ids of the channel's messages in creation order, from the one after
\* message `after` on (from the first one when `after` is 0)
RECURSIVE CreatedAfter(_, _)
CreatedAfter(channel_id, after) ==
    LET later == {i \in ChannelMessages(channel_id) : i > after} IN
    IF later = {} THEN <<>>
    ELSE LET first == CHOOSE i \in later : \A j \in later : i <= j
         IN <<messages[first].id>> \o CreatedAfter(channel_id, first)
ExpectedUnread(channel_id, agent_id, user_identifier) ==
    LET found == _get_read_cursor(channel_id, agent_id, user_identifier) IN
    IF found = {} THEN CreatedAfter(channel_id, 0)
    ELSE CreatedAfter(channel_id, (CHOOSE c \in found : TRUE).last_read_message_id)

\* C3: every unread response lists, oldest first, all messages of the
\* channel when the reader has no cursor, else exactly the messages created
\* after the message the cursor points at, and its count is their number.
\* (Messages of one creation instant may come in either order.)
ListsOldestFirst(listed, expected) ==
    /\ Len(listed) = Len(expected)
    /\ {listed[k] : k \in DOMAIN listed} = {expected[k] : k \in DOMAIN expected}
    /\ \A k \in 1..(Len(listed) - 1) :
           messages[listed[k]].created_at <= messages[listed[k + 1]].created_at
C3_UnreadIsAfterCursor ==
    [][unread' # unread =>
          /\ ListsOldestFirst(unread'.messages,
                 ExpectedUnread(unread'.channel_id, unread'.agent_id,
                                unread'.user_identifier))
          /\ unread'.unread_count =
                 Len(ExpectedUnread(unread'.channel_id, unread'.agent_id,
                                    unread'.user_identifier))]_vars

----------------------------------------------------------------------------
(* Properties of message routing *)

\* the name matches a token: case-insensitively as it is, with spaces as
\* hyphens, or with spaces and hyphens as underscores
Matches(a, content) ==
    \E k \in DOMAIN findall(content, 1) :
        LET token == lower(findall(content, 1)[k])
            name == lower(agent_name(a))
        IN \/ token = name
           \/ token = replace(name, " ", "-")
           \/ token = replace(replace(name, " ", "_"), "-", "_")

\* C4: when a human's send_channel_message returns, every agent member whose
\* name matches a token has exactly one DM job and no evaluation job for the
\* message, and every other agent member exactly one evaluation job.
C4_MentionRouting ==
    (send.pc = "return" /\ HumanSent(send.msg)) =>
        \A a \in get_channel_agent_ids(send.msg.channel_id) :
            IF Matches(a, send.msg.content)
            THEN /\ Enqueued(dm_jobs, Job(a, send.msg.id)) = 1
                 /\ Enqueued(eval_jobs, Job(a, send.msg.id)) = 0
            ELSE Enqueued(eval_jobs, Job(a, send.msg.id)) = 1

C4_Witness ==
    /\ send.pc = "return"
    /\ HumanSent(send.msg)
    /\ send.msg.content = <<"@", "a", "l", "-", "b", " ", "@", "A", "L", "_", "B">>
    /\ get_channel_agent_ids(send.msg.channel_id) = {"a1", "a2"}
    /\ Enqueued(dm_jobs, Job("a1", send.msg.id)) = 1
    /\ Enqueued(eval_jobs, Job("a2", send.msg.id)) = 1

Persisted(id) == \E i \in DOMAIN messages : messages[i].id = id
TimesInHistory(id) ==
    Cardinality({i \in DOMAIN messages :
        /\ messages[i].id = id
        /\ \E k \in DOMAIN get_message_history(messages[i].channel_id,
                                               page_size_default, None).messages :
               get_message_history(messages[i].channel_id, page_size_default,
                                   None).messages[k] = messages[i]})

\* C5: every published frame and every enqueued job is for a message that is
\* already stored, and the message of every send_channel_message call that
\* returned is listed exactly once in its channel's history.
C5_PersistedBeforeRouting ==
    /\ \A k \in DOMAIN frames : Persisted(frames[k].id)
    /\ \A j \in DOMAIN dm_jobs \cup DOMAIN eval_jobs : Persisted(j.message_id)
    /\ send.pc # "idle" => Persisted(send.msg.id)
    /\ \A id \in returned : TimesInHistory(id) = 1

C5_Witness ==
    \E id \in returned :
        /\ \E k \in DOMAIN frames : frames[k].id = id
        /\ \E a \in AgentIds : Enqueued(dm_jobs, Job(a, id)) = 1
        /\ \E a \in AgentIds : Enqueued(eval_jobs, Job(a, id)) = 1
        /\ TimesInHistory(id) = 1

----------------------------------------------------------------------------
(* Properties of channels *)

\* C10: for every agent and human at most one dm channel has both as
\* members, and all get_or_create_dm_channel calls for the pair returned the
\* same channel id.
C10_OneDmChannelPerPair ==
    \A a \in AgentIds, h \in UserIds :
        /\ Cardinality(DmChannelMatches(a, h)) <= 1
        /\ \A r1, r2 \in dm_returned :
               (r1.agent_id = a /\ r2.agent_id = a
                /\ r1.user_identifier = h /\ r2.user_identifier = h)
                   => r1.channel_id = r2.channel_id

\* the agent members and the human members of a channel
AgentMembers(c) ==
    {m \in channel_members : m.channel_id = c /\ m.agent_id # NULL}
HumanMembers(c) ==
    {m \in channel_members : m.channel_id = c /\ m.user_identifier # NULL}

\* C11: every channel of type dm has exactly one agent member and exactly
\* one human member, and every channel a get_or_create_dm_channel(a, h)
\* call has returned is a dm channel whose members are a and h.
C11_DmChannelIsOnePair ==
    /\ \A c \in DOMAIN channels :
           channels[c].channel_type = "dm" =>
               /\ Cardinality(AgentMembers(c)) = 1
               /\ Cardinality(HumanMembers(c)) = 1
    /\ \A r \in dm_returned :
           /\ channels[r.channel_id].channel_type = "dm"
           /\ {m \in channel_members : m.channel_id = r.channel_id} =
                  {MemberRow(r.channel_id, r.agent_id, NULL),
                   MemberRow(r.channel_id, NULL, r.user_identifier)}

----------------------------------------------------------------------------
(* Properties of pagination *)

\* the messages of all pages received so far, in the order received
RECURSIVE Flatten(_)
Flatten(pages) ==
    IF pages = <<>> THEN <<>>
    ELSE Flatten(SubSeq(pages, 1, Len(pages) - 1)) \o pages[Len(pages)].messages

\* C12: reading a channel's history with page size p and following the
\* cursor of the last message of each page, with no write meanwhile: every
\* page but the last holds p messages, has_next of a page is true exactly
\* when messages older than its last one remain, the pages are ordered
\* newest first, and once has_next is false the pages together hold
\* every message of the channel exactly once.
C12_HistoryPagesCoverChannel ==
    LET N == Cardinality(ChannelMessages(1))
        all == Flatten(walk.pages)
    IN /\ \A k \in DOMAIN walk.pages :
              LET got == Len(Flatten(SubSeq(walk.pages, 1, k)))
              IN /\ walk.pages[k].has_next <=> got < N
                 /\ walk.pages[k].has_next =>
                        Len(walk.pages[k].messages) = walk.page_size
                 /\ walk.pages[k].has_prev <=> k > 1
       /\ \A i, j \in DOMAIN all :
              i < j => /\ all[i].created_at >= all[j].created_at
                       /\ all[i].id # all[j].id
       /\ walk.pc = "done" =>
              {all[i].id : i \in DOMAIN all} = ChannelMessages(1)

\* a finished walk of three pages or more over messages of which one page
\* boundary separates two of the same creation instant
C12_Witness ==
    /\ walk.pc = "done"
    /\ Len(walk.pages) >= 3
    /\ \E k \in 1..(Len(walk.pages) - 1) :
           walk.pages[k].messages[Len(walk.pages[k].messages)].created_at =
               walk.pages[k + 1].messages[1].created_at

\* the agents of all pages received so far, in the order received
RECURSIVE FlattenAgents(_)
FlattenAgents(pages) ==
    IF pages = <<>> THEN <<>>
    ELSE FlattenAgents(SubSeq(pages, 1, Len(pages) - 1))
             \o pages[Len(pages)].agents

\* C13: listing the agents by creation instant, ascending or descending,
\* and following the returned cursor page by page returns every agent
\* exactly once and ends with has_next false.
C13_ListPagesCoverAgents ==
    LET all == FlattenAgents(listing.pages)
    IN /\ \A i, j \in DOMAIN all : i < j => all[i].id # all[j].id
       /\ listing.pc = "done" =>
              /\ ~listing.pages[Len(listing.pages)].has_next
              /\ {all[i] : i \in DOMAIN all} = agent_rows

----------------------------------------------------------------------------
(* Properties of the session plane *)

\* how many times a socket has sent frame f
TimesSent(s, f) == Cardinality({i \in DOMAIN sockets[s] : sockets[s][i] = f})

\* C14: with a listener on each of two replicas, the bus delivering to
\* both and every send succeeding, a frame published for a channel is
\* eventually sent exactly once to every session that stays attached to
\* that channel on either replica, never twice, and never to a session of
\* another channel.
C14_FrameReachesEverySession ==
    /\ [](\A s \in WsSessions :
             /\ \A i \in DOMAIN sockets[s] : published[sockets[s][i]] = s[2]
             /\ \A f \in DOMAIN published :
                    s \in attached_since[f] => TimesSent(s, f) <= 1)
    /\ \A f \in 1..MaxFrames :
           (Len(published) >= f)
               ~> (\A s \in attached_since[f] : TimesSent(s, f) = 1)

\* the listener of the session's replica is waiting for the session's send
SendPending(s) ==
    /\ listener[s[1]].pc = "send"
    /\ listener[s[1]].channel_id = s[2]
    /\ listener[s[1]].client_id = s[3]

\* C15: a client whose send never completes is evicted from the registry,
\* the frame being broadcast still reaches the other sessions attached to
\* the channel, and frames published afterwards still reach theirs.
C15_SlowConsumerIsEvicted ==
    /\ \A s \in WsSessions :
           (s \in stuck /\ SendPending(s)) ~> ~Attached(s)
    /\ \A f \in 1..MaxFrames :
           (Len(published) >= f)
               ~> (\A s \in attached_since[f] \ stuck : TimesSent(s, f) = 1)

\* C16: no failure inside one iteration ends a background loop: after a
\* payload that is not JSON, a handler exception or a failed read from the
\* bus, the listener of every replica is still waiting for the next
\* pmessage or handling one.
C16_ListenerSurvivesFailures ==
    \A r \in Replicas : listener[r].pc \in {"listen", "send"}

----------------------------------------------------------------------------
(* Properties of the delivery queue *)

\* C17: a job of either task whose worker call keeps failing is attempted
\* 1 + 3 times, waits 5 s, 10 s and 20 s between the attempts, and then
\* has failed for good (it is never queued again).
C17_RetriesThreeTimesWithBackoff ==
    \A j \in DOMAIN queue_jobs :
        /\ queue_jobs[j].state = "failed" =>
               /\ queue_jobs[j].attempts = 1 + 3
               /\ queue_jobs[j].countdowns = <<5, 10, 20>>
        /\ queue_jobs[j].state # "done" =>
               /\ queue_jobs[j].attempts <= 1 + 3
               /\ \A i \in DOMAIN queue_jobs[j].countdowns :
                      queue_jobs[j].countdowns[i] = <<5, 10, 20>>[i]

\* the DM jobs the queue holds for a message, and whether all have failed
DmJobsOf(r) ==
    {j \in DOMAIN queue_jobs :
        /\ queue_jobs[j].task = deliver_dm_to_agent
        /\ queue_jobs[j].agent_id = r.agent_id
        /\ queue_jobs[j].message_id = r.id}
Exhausted(r) ==
    /\ DmJobsOf(r) # {}
    /\ \A j \in DmJobsOf(r) : queue_jobs[j].state = "failed"
\* get_unread_messages for the target agent lists the message
ListedUnread(r) ==
    \A listed \in get_unread_messages(r.channel_id, r.agent_id, NULL) :
        \E i \in DOMAIN listed : listed[i] = r.id
\* this step is the target agent marking the message or a later one read
MarksRead(r) ==
    \E c \in read_cursors' \ read_cursors :
        /\ c.channel_id = r.channel_id
        /\ c.agent_id = r.agent_id
        /\ c.last_read_message_id >= r.id

\* C18: a send_direct_message to an agent whose worker is unreachable
\* returns with the message stored in a dm channel of the agent and the
\* sender, its frame published and exactly one DM job queued; once that
\* job has failed for good the message is still in the channel's history,
\* and it stays among the agent's unread messages until the agent marks it
\* or a later message read.
C18_UndeliveredDmStaysUnread ==
    /\ [](\A r \in dm_sent :
             /\ channels[r.channel_id].channel_type = "dm"
             /\ r.channel_id \in DmChannelMatches(r.agent_id, "h1")
             /\ \E k \in DOMAIN frames : frames[k].id = r.id
             /\ Cardinality(DmJobsOf(r)) = 1
             /\ \E i \in DOMAIN get_message_history(r.channel_id, page_size_default, None).messages :
                    get_message_history(r.channel_id, page_size_default, None).messages[i].id = r.id)
    /\ [][\A r \in dm_sent :
             (Exhausted(r) /\ ListedUnread(r) /\ ~MarksRead(r))
                 => ListedUnread(r)']_vars

----------------------------------------------------------------------------
(* Properties of the agent configuration *)

\* C19: create, operator update and self-update reject a heartbeat period
\* outside [300, 86400] and leave the store as it was, so the period of
\* every stored agent is within [300, 86400].
C19_HeartbeatPeriodInRange ==
    \A a \in DOMAIN heartbeat_interval_seconds :
        /\ heartbeat_interval_seconds[a] >= 300
        /\ heartbeat_interval_seconds[a] <= 86400

----------------------------------------------------------------------------
(* Properties of message senders *)

OneSender(msg) ==
    (msg.sender_agent_id = NULL) # (msg.sender_user_identifier = NULL)
NoSender(msg) ==
    msg.sender_agent_id = NULL /\ msg.sender_user_identifier = NULL

\* C20: every persisted message has exactly one of sender agent and sender
\* human set, or neither with message type system: a send with both
\* senders, or with neither for a non-system message, persists nothing.
C20_MessageHasOneSender ==
    \A i \in DOMAIN messages :
        \/ OneSender(messages[i])
        \/ NoSender(messages[i]) /\ messages[i].message_type = "system"

----------------------------------------------------------------------------
(* Properties of read cursors and of unread listings *)

\* C21: a mark-read call naming both an agent and a human, or neither,
\* leaves the read cursors as they were, so every stored read cursor
\* belongs to exactly one reader.
C21_CursorHasOneReader ==
    \A c \in read_cursors : (c.agent_id = NULL) # (c.user_identifier = NULL)

----------------------------------------------------------------------------
(* Properties of the session endpoint *)

\* the step handles frame data received on connection k
Received(k, data) == \E ok \in BOOLEAN : EpReceive(k, data, ok)

\* C22: for every inbound frame that fails validation (a type other than
\* message, missing or empty content, a message_type outside chat and
\* system, or a JSON value that is no object) the endpoint sends one error
\* frame to that client only, persists and publishes nothing, keeps the
\* session registered and open and goes on reading.
C22_InvalidFrameGetsErrorFrame ==
    [][\A k \in DOMAIN ep, data \in InboundFrames :
          (FailsValidation(data) /\ Received(k, data)) =>
              /\ ep_errors' = [ep_errors EXCEPT ![k] = @ + 1]
              /\ messages' = messages /\ frames' = frames
              /\ registry' = registry
              /\ ep'[k].pc = "receive"]_vars

----------------------------------------------------------------------------
(* Properties of live-status enrichment *)

\* no worker is found under the agent's handle
WorkerAbsent(row) == PhaseOf(row.pod_name) = "Absent"
\* the status the enrichment rules display for a stored row
Displayed(row) ==
    IF row.status \in {"running", "error", "recovering"}
          /\ \/ row.status = "running" /\ WorkerAbsent(row)
             \/ PhaseOf(row.pod_name) = "Failed"
    THEN "error"
    ELSE row.status

\* C23: listing and getting agents with live status never change an
\* agent's stored status or handle, whatever the runtime call returns or
\* raises; when the call returns, an agent whose stored status is running
\* and whose worker is absent, or (stored status running, error or
\* recovering) whose worker phase is failed, is displayed as error, and
\* every other agent with its stored status.
C23_EnrichmentOnlyDisplays ==
    [][live' # None /\ live = None =>
          /\ agents' = agents
          /\ live'.returned =>
                 \A a \in DOMAIN live'.status :
                     live'.status[a] = Displayed(agents[a])]_vars

----------------------------------------------------------------------------
(* Properties of the unread count *)

\* the readers an unread request may name: an agent, a human, or both
UnreadReaders == {<<"a1", NULL>>, <<NULL, "h1">>, <<"a1", "h1">>}

\* C24: for every channel, reader and reachable store state, the unread
\* count equals the number of messages the unread listing returns on that
\* state.
C24_UnreadCountIsListLength ==
    \A channel_id \in DOMAIN channels, r \in UnreadReaders :
        \A listed \in get_unread_messages(channel_id, r[1], r[2]) :
            get_unread_count(channel_id, r[1], r[2]) = Len(listed)

\* a reader with a cursor has read some of the channel's messages and not
\* others
C24_Witness ==
    \E r \in UnreadReaders :
        /\ _get_read_cursor(1, r[1], r[2]) # {}
        /\ get_unread_count(1, r[1], r[2]) >= 1
        /\ get_unread_count(1, r[1], r[2]) < Cardinality(ChannelMessages(1))

----------------------------------------------------------------------------
(* Properties of evaluation routing *)

\* C25: evaluation jobs are enqueued only for human-sent channel messages:
\* a channel message sent by an agent gets no evaluation job, and a system
\* message gets neither an evaluation job nor a DM job, also when its
\* content holds @tokens that match members of the channel.
C25_EvaluationOnlyForHumans ==
    /\ \A j \in DOMAIN eval_jobs :
           /\ messages[j.message_id].sender_user_identifier # NULL
           /\ messages[j.message_id].sender_agent_id = NULL
    /\ \A j \in DOMAIN dm_jobs \cup DOMAIN eval_jobs :
           ~NoSender(messages[j.message_id])

\* a system message that mentions a member and a message of an agent have
\* both been sent to a channel with agent members
C25_Witness ==
    /\ send.pc = "idle"
    /\ get_channel_agent_ids(1) # {}
    /\ \E i \in DOMAIN messages :
           /\ NoSender(messages[i]) /\ messages[i].id \in returned
           /\ MentionTargets(1, messages[i].content) # {}
    /\ \E i \in DOMAIN messages :
           messages[i].sender_agent_id # NULL /\ messages[i].id \in returned

----------------------------------------------------------------------------
(* Properties of the Reconciler under concurrent requests *)

\* C26: however delete(agent) interleaves with a Reconciler tick, the
\* Reconciler neither writes the status of nor launches a worker for an
\* agent whose stored status is terminating or creating at that moment,
\* also when the agent became terminating after the tick read its
\* snapshot of agents.
C26_ReconcilerSkipsTerminating ==
    [][\A a \in DOMAIN agents :
          (ReconcilerNext /\ agents[a].status \in {"terminating", "creating"}) =>
              /\ a \in DOMAIN agents' => agents'[a].status = agents[a].status
              /\ pods[a] = "Absent" => pods'[a] = "Absent"]_vars

\* C27: when the reconciler reaches an agent in error or recovering that has no
\* worker, it starts a recovery attempt if the agent's failure count is below 5
\* or at least min(10 * 2^(failure_count - 5), 600) seconds have passed since
\* the last failed attempt; otherwise it skips the agent and leaves its status,
\* handle, failure count and last attempt as they are.
C27_BackoffDue(a) ==
    \/ FailureCount(a) < 5
    \/ last_attempt[a] >= Min(10 * Pow2(FailureCount(a) - 5), 600)

C27_RecoveryBacksOff ==
    [][RecoverBegin =>
          IF C27_BackoffDue(Cur.id)
          THEN /\ rec_pc' = "launch"
               /\ Cur.id \in DOMAIN agents => agents'[Cur.id].status = "recovering"
          ELSE /\ rec_pc' = "loop" /\ rec_idx' = rec_idx + 1
               /\ UNCHANGED <<agents, pods, failure_counts, last_attempt>>]_vars

\* a recovery attempt starts after the agent sat out a backoff longer than a tick
C27_Witness ==
    /\ rec_pc = "launch"
    /\ FailureCount(Cur.id) >= 8
    /\ last_attempt[Cur.id] >= Min(10 * Pow2(FailureCount(Cur.id) - 5), 600)

\* C28: the pending timer of an agent belongs to the worker that is pending now:
\* a step that launches a new worker for the agent leaves no timer behind from
\* an earlier worker, and a tick that finds the agent's worker running leaves
\* the agent without a timer, so the timeout can only fire on a worker that
\* has itself been pending for more than 180 s.
C28_PendingTimerIsPerWorker ==
    [][/\ \A a \in AgentIds :
              (pods[a] = "Absent" /\ pods'[a] # "Absent") => a \notin DOMAIN pending_seen'
       /\ (ReconcileNothing /\ Cur.status = "running" /\ rec_pods[Cur.id] = "Running")
              => Cur.id \notin DOMAIN pending_seen']_vars

\* the broadcast that ends with this step tried to send its frame to session s:
\* the send completed, or it raised and s was marked dead
SendFailed(r, s) ==
    \/ \E i \in DOMAIN listener[r].dead : listener[r].dead[i] = s[3]
    \/ listener[r].client_id = s[3] /\ ws_used'.send_faults # ws_used.send_faults

\* C29: when a broadcast of a frame ends on a replica, every session of the
\* channel that has been attached to that replica since the frame was
\* published has had the frame sent to it or has failed its send, and only
\* the sessions whose send failed are evicted, whatever attached to or
\* detached from the channel while the broadcast was suspended in a send.
C29_BroadcastAttemptsEveryClient ==
    [][\A r \in Replicas, f \in DOMAIN published :
          (listener[r].pc = "send" /\ listener[r].data.id = f /\ listener'[r].pc = "listen") =>
              \A s \in attached_since[f] :
                  (s[1] = r /\ s[2] = listener[r].channel_id) =>
                      /\ TimesSent(s, f)' >= 1 \/ SendFailed(r, s)
                      /\ Attached(s)' <=> ~SendFailed(r, s)]_vars

\* connection k was accepted and registered and has neither reached its
\* finally block nor been evicted by a broadcast
Accepted(k) == ep[k].pc \in {"join", "receive"} /\ k \notin ep_evicted

\* C30: the registry holds a handle under (channel, client_id) exactly when
\* some session of that client on that channel is accepted and has not
\* disconnected or been evicted, and it holds no empty bucket; two sessions
\* may use the same client_id on the same channel.
C30_RegistryMatchesSessions ==
    /\ \A channel_id \in {1, 2}, client_id \in EndpointClients :
           client_id \in DOMAIN Bucket(registry, channel_id)
               <=> \E k \in DOMAIN ep : /\ Accepted(k)
                                        /\ ep[k].channel_id = channel_id
                                        /\ ep[k].client_id = client_id
    /\ \A channel_id \in DOMAIN registry : DOMAIN registry[channel_id] # {}

\* C31: create_agent without provider credentials writes no row and launches
\* no worker; a create_agent call that returns has committed exactly one new
\* row, running with handle agent-<id> beside a launched worker or error with
\* a null handle beside none; and no create_agent call leaves a committed row
\* in status creating or a launched worker without a committed row.
C31_CreateIsAllOrNothing ==
    [][\A a \in AgentIds, configured, ok, committed \in BOOLEAN :
          CreateAgent(a, configured, ok, committed) =>
              /\ ~configured => UNCHANGED <<agents, pods>>
              /\ (configured /\ committed) =>
                     /\ DOMAIN agents' = DOMAIN agents \cup {a}
                     /\ \A b \in DOMAIN agents : agents'[b] = agents[b]
                     /\ agents'[a] = IF pods'[a] # "Absent"
                                     THEN [status |-> "running", pod_name |-> PodName(a)]
                                     ELSE [status |-> "error", pod_name |-> None]
              /\ a \in DOMAIN agents' => agents'[a].status # "creating"
              /\ pods'[a] # "Absent" => a \in DOMAIN agents']_vars

\* C32: stopping the reconciler lets the transition in flight finish: when
\* stop returns no agent is left in status recovering, and a worker launched
\* by the interrupted recovery has its handle and status running recorded.
C32_StopFinishesTransition ==
    [][stop =>
          /\ \A a \in DOMAIN agents' : agents'[a].status # "recovering"
          /\ (rec_pc = "commit" /\ Cur.id \in DOMAIN agents) =>
                 agents'[Cur.id] = [status |-> "running", pod_name |-> PodName(Cur.id)]]_vars

\* C33: listing the agents by name, ascending or descending, and following
\* links.next of each response ends after at most one request per agent and
\* has then returned every agent, none of them twice.
C33_NameListingTerminates ==
    LET all == FlattenAgents(listing.pages)
    IN /\ \A i, j \in DOMAIN all : i < j => all[i].id # all[j].id
       /\ Len(listing.pages) <= Cardinality(agent_rows) + 1
       /\ listing.pc = "done" => {all[i] : i \in DOMAIN all} = agent_rows

\* C34: an exception raised while one agent is reconciled does not end the
\* tick for the agents after it: the loop goes back to sleep only when no
\* agent of the tick's snapshot is left behind the one it was working on.
C34_TickReachesEveryAgent ==
    [][(rec_pc \in {"loop", "launch", "commit"} /\ rec_pc' = "sleep")
          => rec_idx >= Len(rec_agents)]_vars

\* the agent is in error or recovering while the runtime still holds a
\* worker of its name
Stranded(a) ==
    /\ a \in DOMAIN agents
    /\ agents[a].status \in {"error", "recovering"}
    /\ pods[a] # "Absent"

\* C35: under a reconciler that keeps ticking and a runtime that accepts
\* launches, an agent in error or recovering whose worker still exists in the
\* runtime eventually is running with a live worker (unless it is deleted).
C35_StrandedAgentHeals ==
    Stranded("a1") ~> (BeingDeleted("a1") \/ Recovered("a1"))

\* C36: with two replicas each running a reconciler, a recovery attempt of
\* one replica never undoes the other's: once the agent is running with its
\* handle and a live worker, no step of a recovery attempt changes that.
C36_ReplicasDoNotConflict ==
    [][\A a \in AgentIds :
          (/\ Recovered(a)
           /\ \/ RecoverBegin
              \/ \E ok \in BOOLEAN : RecoverLaunch(ok)
              \/ \E ok \in BOOLEAN : RecoverCommit(ok))
              => Recovered(a)']_vars

\* request k is an append that has completed
AppendDone(k) ==
    patch[k].pc = "done" /\ patch[k].body.content = NULL /\ patch[k].body.append # NULL

\* C37: after two append requests for the same agent have completed, in
\* whatever interleaving, the stored memory contains both appended texts.
C37_AppendsAreNotLost ==
    (\A k \in DOMAIN patch : AppendDone(k)) =>
        \A k \in DOMAIN patch :
            \E i \in DOMAIN memory : memory[i] = patch[k].body.append


\* the loop tasks that have not finished, and those sending the prompt
AliveLoops == {t \in DOMAIN loop_tasks : loop_tasks[t].pc # "done"}
ProcessingLoops == {t \in DOMAIN loop_tasks : loop_tasks[t].pc = "processing"}

\* C38: once the start, stop and restart calls of a worker have returned,
\* whatever their interleaving, at most one heartbeat loop task is alive, at
\* most one is processing the heartbeat prompt, and a loop task that is
\* alive is the one the timer holds, the one stop() cancels.
C38_OneHeartbeatLoop ==
    Quiescent =>
        /\ Cardinality(AliveLoops) <= 1
        /\ Cardinality(ProcessingLoops) <= 1
        /\ \A t \in AliveLoops : heartbeat.task = t

\* C39: after any sequence of config pushes to a booted worker, the timer
\* is running exactly when heartbeat_enabled is true.
C39_TimerFollowsEnabled ==
    Quiescent => (heartbeat.running <=> worker_config.heartbeat_enabled)

====
